---- MODULE Spec2Model ----
(***************************************************************************)
(* Model of the YTS movie notifier: the admission filter, the priority     *)
(* scorer and the novelty tracker of MovieNotifier (movie_notifier.py) and  *)
(* EnhancedMovieNotifier (enhanced_movie_notifier.py), and the polling      *)
(* cycle check_and_notify that chains them.                                 *)
(*                                                                         *)
(* Conventions.  A movie is a Python dict: here a function from key names   *)
(* to values whose DOMAIN is the set of keys present, so that               *)
(* movie.get(k, d) is Get(movie, k, d).  Ratings and scores are kept in     *)
(* tenths (6.0 is 60) so that they stay integers.  A Python list of dicts   *)
(* holds references: the fetched batch `movies` is the sequence of dict     *)
(* objects and every other list (filtered_movies, new_movies) is a sequence *)
(* of positions in `movies`, so that the in-place write movie['_score']     *)
(* is visible through every list that holds the dict.                       *)
(***************************************************************************)
EXTENDS Integers, Sequences, FiniteSets, TLC

\* ------------------------------------------------------------------ bounds
\* longest batch a catalog fetch returns in the polling specification
MaxBatch == 2
\* number of polling cycles the monitoring loop is followed for
MaxCycles == 2
\* longest list handed to a direct call of filter_high_rated_movies / get_new_movies
MaxLen == 2
\* number of calls of calculate_movie_score the scoring driver makes
MaxEvals == 3
\* most entries in a batch fetched by one of two concurrent cycles
MaxConcBatch == 2
\* most entries the catalog lists, polling cycles and commands of the chat
\* user when InteractiveMovieBot runs
MaxBotBatch == 2
MaxBotCycles == 1
MaxCommands == 2

\* --------------------------------------------------------- configuration
\* MIN_RATING = 6.0, in tenths
MIN_RATING == 60
MIN_YEAR == 2025
\* CHECK_INTERVAL = 3600 seconds, in hours
CHECK_INTERVAL == 1

\* movie.get('id') of a dict without the key 'id' (None)
NoId == -1
\* stands for the identifier '' (the empty string)
EmptyId == -2

EXCLUDED_GENRES(notifier) ==
    IF notifier \in {"EnhancedMovieNotifier", "InteractiveMovieBot"}
    THEN {"Biography", "Documentary", "Drama", "History", "Sport", "Music", "Comedy"}
    ELSE {"Biography", "Documentary", "Drama", "History", "Sport", "Music"}

PREFERRED_GENRES(notifier) ==
    IF notifier \in {"EnhancedMovieNotifier", "InteractiveMovieBot"}
    THEN {"Action", "Adventure", "Crime", "Fantasy", "Horror",
          "Mystery", "Romance", "Sci-Fi", "Thriller", "War", "Western"}
    ELSE {"Action", "Adventure", "Comedy", "Crime", "Fantasy", "Horror",
          "Mystery", "Romance", "Sci-Fi", "Thriller", "War", "Western"}

\* ------------------------------------------------------- dict primitives
\* dict.get(k, d)
Get(m, k, d) == IF k \in DOMAIN m THEN m[k] ELSE d

\* SetKey as a dict rebuilt from the one key: movie = {'_score': ...}
SetKey_Only(m, k, v) == [x \in {k} |-> v]

\* m[k] = v on a dict (adds the key when absent)
SetKey(m, k, v) == [x \in (DOMAIN m) \cup {k} |-> IF x = k THEN v ELSE m[x]]

\* Truthy testing the value only: a missing id counts as an identifier
Truthy_NotZero(id) == id # 0

\* Truthy testing for None only: `if movie_id is not None`
Truthy_NotNone(id) == id # NoId

\* truth value of movie.get('id'): None, 0 and '' are falsy
Truthy(id) == id # NoId /\ id # 0 /\ id # EmptyId

Min(a, b) == IF a <= b THEN a ELSE b

RECURSIVE SumSeeds(_)
\* sum(torrent.get('seeds', 0) for torrent in torrents)
SumSeeds(torrents) ==
    IF torrents = <<>> THEN 0
    ELSE Get(Head(torrents), "seeds", 0) + SumSeeds(Tail(torrents))

\* ------------------------------------------------------- title matching
UpperCs == <<"A","B","C","D","E","F","G","H","I","J","K","L","M",
             "N","O","P","Q","R","S","T","U","V","W","X","Y","Z">>
LowerCs == <<"a","b","c","d","e","f","g","h","i","j","k","l","m",
             "n","o","p","q","r","s","t","u","v","w","x","y","z">>

\* str.lower() on a title given as its sequence of characters
Lower(title) ==
    [i \in 1..Len(title) |->
        IF \E j \in 1..26 : UpperCs[j] = title[i]
        THEN LowerCs[CHOOSE j \in 1..26 : UpperCs[j] = title[i]]
        ELSE title[i]]

\* pattern in title (substring test)
Contains(title, pattern) ==
    \E i \in 1..(Len(title) - Len(pattern) + 1) :
        \A j \in 1..Len(pattern) : title[i + j - 1] = pattern[j]

\* char.isdigit()
IsDigit(c) == c \in {"0","1","2","3","4","5","6","7","8","9"}

sequel_indicators ==
    { <<"2">>, <<"3">>, <<"4">>, <<"5">>, <<"6">>, <<"7">>, <<"8">>, <<"9">>,
      <<"1","0">>, <<"p","a","r","t">>, <<"s","e","q","u","e","l">>,
      <<"r","e","m","a","k","e">>, <<"r","e","b","o","o","t">> }

famous_patterns ==
    { <<"y","e","a","r","s"," ","l","a","t","e","r">>, <<"h","a","p","p","y">>,
      <<"g","i","l","m","o","r","e">>, <<"s","i","t","a","a","r","e">>,
      <<"z","a","m","e","e","n">>, <<"p","a","r">> }

\* ------------------------------------------------------- priority scorer
\* the listing-recency bonus of EnhancedMovieNotifier.calculate_movie_score;
\* date_uploaded is [kind, ts]: kind "empty" is the empty string, "malformed"
\* a string datetime.fromisoformat rejects, "iso" a timestamp at hour ts
RecencyBonus_Halved(movie, now) ==
    LET date_added == Get(movie, "date_uploaded", [kind |-> "empty", ts |-> 0])
        hours_since_added == now.hours - date_added.ts
    IN  IF date_added.kind = "empty" THEN 0
        ELSE IF date_added.kind = "malformed" THEN 15
        ELSE IF hours_since_added <= 24 THEN 50
        ELSE IF hours_since_added <= 72 THEN 30
        ELSE IF hours_since_added <= 168 THEN 20
        ELSE IF hours_since_added <= 720 THEN 20
        ELSE 10

RecencyBonus_Linear(movie, now) ==
    LET date_added == Get(movie, "date_uploaded", [kind |-> "empty", ts |-> 0])
        hours_since_added == now.hours - date_added.ts
    IN  IF date_added.kind = "empty" THEN 0
        ELSE IF date_added.kind = "malformed" THEN 15
        ELSE IF hours_since_added <= 24 THEN 100 - hours_since_added
        ELSE IF hours_since_added <= 72 THEN 60
        ELSE IF hours_since_added <= 168 THEN 40
        ELSE IF hours_since_added <= 720 THEN 20
        ELSE 10

RecencyBonus_Swapped(movie, now) ==
    LET date_added == Get(movie, "date_uploaded", [kind |-> "empty", ts |-> 0])
        hours_since_added == now.hours - date_added.ts
    IN  IF date_added.kind = "empty" THEN 0
        ELSE IF date_added.kind = "malformed" THEN 15
        ELSE IF hours_since_added <= 24 THEN 100
        ELSE IF hours_since_added <= 72 THEN 40
        ELSE IF hours_since_added <= 168 THEN 60
        ELSE IF hours_since_added <= 720 THEN 20
        ELSE 10

RecencyBonus_FlatWeek(movie, now) ==
    LET date_added == Get(movie, "date_uploaded", [kind |-> "empty", ts |-> 0])
        hours_since_added == now.hours - date_added.ts
    IN  IF date_added.kind = "empty" THEN 0
        ELSE IF date_added.kind = "malformed" THEN 15
        ELSE IF hours_since_added <= 24 THEN 100
        ELSE IF hours_since_added <= 168 THEN 60
        ELSE IF hours_since_added <= 720 THEN 20
        ELSE 10

RecencyBonus(movie, now) ==
    LET date_added == Get(movie, "date_uploaded", [kind |-> "empty", ts |-> 0])
        hours_since_added == now.hours - date_added.ts
    IN  IF date_added.kind = "empty" THEN 0
        ELSE IF date_added.kind = "malformed" THEN 15
        ELSE IF hours_since_added <= 24 THEN 100
        ELSE IF hours_since_added <= 72 THEN 60
        ELSE IF hours_since_added <= 168 THEN 40
        ELSE IF hours_since_added <= 720 THEN 20
        ELSE 10

TorrentBonus(movie, notifier) ==
    LET torrents == Get(movie, "torrents", <<>>)
        total_seeds == SumSeeds(torrents)
    IN  IF torrents = <<>> THEN 0
        ELSE Min(Len(torrents), 3) * 2
             + (IF notifier = "EnhancedMovieNotifier"
                THEN (IF total_seeds > 200 THEN 10
                      ELSE IF total_seeds > 100 THEN 6
                      ELSE IF total_seeds > 50 THEN 3 ELSE 0)
                ELSE (IF total_seeds > 100 THEN 5
                      ELSE IF total_seeds > 50 THEN 3 ELSE 0))

TitleBonus(movie) ==
    LET title == Lower(Get(movie, "title", <<>>))
    IN  (IF \E p \in sequel_indicators : Contains(title, p) THEN 20 ELSE 0)
        + (IF \E i \in 1..Len(title) : IsDigit(title[i]) THEN 15 ELSE 0)
        + (IF \E p \in famous_patterns : Contains(title, p) THEN 25 ELSE 0)

\* EnhancedMovieNotifier.calculate_movie_score, in tenths of a point
EnhancedScore(movie, now) ==
    LET rating == Get(movie, "rating", 0)
        year == Get(movie, "year", 0)
        current_year == now.year
        genres == Get(movie, "genres", {})
        high_priority_genres == {"Action", "Adventure", "Thriller", "Sci-Fi", "Horror"}
        high_priority_count == Cardinality(genres \cap high_priority_genres)
        preferred_count ==
            Cardinality(genres \cap PREFERRED_GENRES("EnhancedMovieNotifier"))
    IN  rating * 3
        + 10 * ( RecencyBonus(movie, now)
               + (IF year >= current_year THEN 25
                  ELSE IF year >= current_year - 1 THEN 15
                  ELSE IF year >= current_year - 2 THEN 8 ELSE 0)
               + high_priority_count * 5
               + preferred_count * 3
               + (IF high_priority_count >= 2 THEN 15 ELSE 0)
               + (IF preferred_count >= 2 THEN 8 ELSE 0)
               + TorrentBonus(movie, "EnhancedMovieNotifier")
               + TitleBonus(movie) )

\* MovieNotifier.calculate_movie_score, in tenths of a point
BasicScore(movie, now) ==
    LET rating == Get(movie, "rating", 0)
        year == Get(movie, "year", 0)
        current_year == now.year
        genres == Get(movie, "genres", {})
        preferred_count == Cardinality(genres \cap PREFERRED_GENRES("MovieNotifier"))
    IN  rating * 2
        + 10 * ( (IF year >= current_year - 1 THEN 10
                  ELSE IF year >= current_year - 2 THEN 5
                  ELSE IF year >= current_year - 3 THEN 2 ELSE 0)
               + preferred_count * 3
               + (IF preferred_count >= 2 THEN 5 ELSE 0)
               + TorrentBonus(movie, "MovieNotifier") )

\* the words of InteractiveMovieBot.calculate_movie_score
bot_famous_patterns ==
    { <<"2","8"," ","y","e","a","r","s"," ","l","a","t","e","r">>,
      <<"h","a","p","p","y"," ","g","i","l","m","o","r","e"," ","2">>,
      <<"s","i","t","a","a","r","e"," ","z","a","m","e","e","n"," ","p","a","r">>,
      <<"d","e","a","d","p","o","o","l">>, <<"b","a","t","m","a","n">>,
      <<"s","p","i","d","e","r","-","m","a","n">>, <<"a","v","e","n","g","e","r","s">>,
      <<"s","t","a","r"," ","w","a","r","s">>,
      <<"m","i","s","s","i","o","n"," ","i","m","p","o","s","s","i","b","l","e">>,
      <<"f","a","s","t"," ","a","n","d"," ","f","u","r","i","o","u","s">>,
      <<"j","a","m","e","s"," ","b","o","n","d">> }

bot_sequel_words ==
    { <<"2">>, <<"3">>, <<"4">>, <<"5">>, <<"6">>, <<"7">>, <<"8">>, <<"9">>,
      <<"1","0">>, <<"i","i">>, <<"i","i","i">>, <<"i","v">>, <<"v">>, <<"v","i">>,
      <<"v","i","i">>, <<"v","i","i","i">>, <<"i","x">>, <<"x">> }

\* InteractiveMovieBot.calculate_movie_score, in tenths of a point
InteractiveScore(movie, now) ==
    LET rating == Get(movie, "rating", 0)
        year == Get(movie, "year", 0)
        current_year == now.year
        genres == Get(movie, "genres", {})
        preferred_count ==
            Cardinality(genres \cap PREFERRED_GENRES("InteractiveMovieBot"))
        high_priority_genres == {"Action", "Adventure", "Thriller", "Sci-Fi", "Horror"}
        high_priority_count == Cardinality(genres \cap high_priority_genres)
        title == Lower(Get(movie, "title", <<>>))
    IN  rating * 3
        + 10 * ( RecencyBonus(movie, now)
               + (IF year >= current_year - 1 THEN 10
                  ELSE IF year >= current_year - 2 THEN 5
                  ELSE IF year >= current_year - 3 THEN 2 ELSE 0)
               + preferred_count * 3
               + (IF preferred_count >= 2 THEN 5 ELSE 0)
               + high_priority_count * 5
               + (IF \E p \in bot_famous_patterns : Contains(title, p) THEN 25 ELSE 0)
               + (IF \E w \in bot_sequel_words : Contains(title, w) THEN 15 ELSE 0)
               + TorrentBonus(movie, "InteractiveMovieBot") )

calculate_movie_score(movie, now, notifier) ==
    IF notifier = "EnhancedMovieNotifier"
    THEN EnhancedScore(movie, now)
    ELSE IF notifier = "InteractiveMovieBot"
    THEN InteractiveScore(movie, now)
    ELSE BasicScore(movie, now)

\* ------------------------------------------------------ admission filter
\* Admits with the rating test written `<=`: an entry exactly at MIN_RATING is
\* rejected
Admits_Strict(movie, notifier) ==
    LET rating == Get(movie, "rating", 0)
        year == Get(movie, "year", 0)
        genres == Get(movie, "genres", {})
    IN  /\ ~(rating <= MIN_RATING \/ year < MIN_YEAR)
        /\ ~((genres \cap EXCLUDED_GENRES(notifier)) # {})

\* Admits with the year test written `<=`: an entry of the year MIN_YEAR is
\* rejected
Admits_NextYear(movie, notifier) ==
    LET rating == Get(movie, "rating", 0)
        year == Get(movie, "year", 0)
        genres == Get(movie, "genres", {})
    IN  /\ ~(rating < MIN_RATING \/ year <= MIN_YEAR)
        /\ ~((genres \cap EXCLUDED_GENRES(notifier)) # {})

\* Admits with movie.get('rating', 10): an entry without rating passes the
\* rating test
Admits_DefaultTen(movie, notifier) ==
    LET rating == Get(movie, "rating", 100)
        year == Get(movie, "year", 0)
        genres == Get(movie, "genres", {})
    IN  /\ ~(rating < MIN_RATING \/ year < MIN_YEAR)
        /\ ~((genres \cap EXCLUDED_GENRES(notifier)) # {})

\* the two `continue` tests of filter_high_rated_movies, negated
Admits(movie, notifier) ==
    LET rating == Get(movie, "rating", 0)
        year == Get(movie, "year", 0)
        genres == Get(movie, "genres", {})
    IN  /\ ~(rating < MIN_RATING \/ year < MIN_YEAR)
        /\ ~((genres \cap EXCLUDED_GENRES(notifier)) # {})

\* the sort key lambda x: (x['_score'], x.get('rating', 0))
SortKey(movie) == <<movie["_score"], Get(movie, "rating", 0)>>

\* KeyLess with the rating dropped from the key: key=lambda x: x['_score']
KeyLess_ScoreOnly(a, b) == a[1] < b[1]

\* Python's tuple comparison a < b on two sort keys
KeyLess(a, b) == a[1] < b[1] \/ (a[1] = b[1] /\ a[2] < b[2])

\* InsertDesc without the sort: r stays where the filter loop appended it
InsertDesc_Append(heap, sorted, r) == Append(sorted, r)

\* InsertDesc as sorted(...)[::-1] would place r: before the elements of equal
\* key, so that ties come out in reverse input order
InsertDesc_BeforeEqual(heap, sorted, r) ==
    LET notLarger == {k \in 1..Len(sorted) :
                        ~KeyLess(SortKey(heap[r]), SortKey(heap[sorted[k]]))}
        pos == IF notLarger = {} THEN Len(sorted) + 1
               ELSE CHOOSE k \in notLarger : \A l \in notLarger : k <= l
    IN  SubSeq(sorted, 1, pos - 1) \o <<r>> \o SubSeq(sorted, pos, Len(sorted))

\* where list.sort(key, reverse=True) leaves r among the already sorted refs:
\* before the first element whose key is smaller, hence after every equal one
InsertDesc(heap, sorted, r) ==
    LET smaller == {k \in 1..Len(sorted) :
                        KeyLess(SortKey(heap[sorted[k]]), SortKey(heap[r]))}
        pos == IF smaller = {} THEN Len(sorted) + 1
               ELSE CHOOSE k \in smaller : \A l \in smaller : k <= l
    IN  SubSeq(sorted, 1, pos - 1) \o <<r>> \o SubSeq(sorted, pos, Len(sorted))

RECURSIVE SortDesc(_, _)
\* filtered_movies.sort(key=..., reverse=True): a stable descending sort
SortDesc(heap, refs) ==
    IF refs = <<>> THEN <<>>
    ELSE InsertDesc(heap, SortDesc(heap, SubSeq(refs, 1, Len(refs) - 1)),
                    refs[Len(refs)])

\* filter_high_rated_movies(movies): the dicts after the call (admitted ones
\* carry '_score') and the returned list
filter_high_rated_movies(heap, refs, now, notifier) ==
    LET filtered_movies == SelectSeq(refs, LAMBDA r : Admits(heap[r], notifier))
        admitted == {filtered_movies[k] : k \in 1..Len(filtered_movies)}
        heap2 == [r \in DOMAIN heap |->
                    IF r \in admitted
                    THEN SetKey(heap[r], "_score",
                                calculate_movie_score(heap[r], now, notifier))
                    ELSE heap[r]]
    IN  [heap |-> heap2, out |-> SortDesc(heap2, filtered_movies)]

\* ------------------------------------------------------- novelty tracker
\* GetNewStep without self.known_movies.add(movie_id)
GetNewStep_NoAdd(acc, heap, r) ==
    LET movie_id == Get(heap[r], "id", NoId)
    IN  IF Truthy(movie_id) /\ movie_id \notin acc.known
        THEN [out |-> Append(acc.out, r), known |-> acc.known]
        ELSE acc

\* GetNewStep with new_movies.insert(0, movie) in place of append
GetNewStep_Prepend(acc, heap, r) ==
    LET movie_id == Get(heap[r], "id", NoId)
    IN  IF Truthy(movie_id) /\ movie_id \notin acc.known
        THEN [out |-> <<r>> \o acc.out, known |-> acc.known \cup {movie_id}]
        ELSE acc

\* GetNewStep with the test `if movie_id:` only
GetNewStep_NoCheck(acc, heap, r) ==
    LET movie_id == Get(heap[r], "id", NoId)
    IN  IF Truthy(movie_id)
        THEN [out |-> Append(acc.out, r), known |-> acc.known \cup {movie_id}]
        ELSE acc

\* GetNewStep with self.known_movies = {movie_id} in place of add
GetNewStep_Replace(acc, heap, r) ==
    LET movie_id == Get(heap[r], "id", NoId)
    IN  IF Truthy(movie_id) /\ movie_id \notin acc.known
        THEN [out |-> Append(acc.out, r), known |-> {movie_id}]
        ELSE acc

\* one iteration of the loop of get_new_movies
GetNewStep(acc, heap, r) ==
    LET movie_id == Get(heap[r], "id", NoId)
    IN  IF Truthy(movie_id) /\ movie_id \notin acc.known
        THEN [out |-> Append(acc.out, r), known |-> acc.known \cup {movie_id}]
        ELSE acc

RECURSIVE get_new_movies(_, _, _)
\* get_new_movies(movies) on self.known_movies = known: the returned list and
\* self.known_movies after the call
get_new_movies(heap, refs, known) ==
    IF refs = <<>> THEN [out |-> <<>>, known |-> known]
    ELSE GetNewStep(get_new_movies(heap, SubSeq(refs, 1, Len(refs) - 1), known),
                    heap, refs[Len(refs)])

\* ------------------------------------------------------- notification
\* a message in the chat: a photo with caption or a text, about the movie id
PhotoMessage(movie, poster_url) ==
    [kind |-> "photo", photo |-> poster_url, id |-> Get(movie, "id", NoId)]
TextMessage(movie) ==
    [kind |-> "text", photo |-> "", id |-> Get(movie, "id", NoId)]

\* the poster taken from the medium cover first
PosterUrl_MediumFirst(movie) ==
    IF Get(movie, "medium_cover_image", "") # ""
    THEN movie["medium_cover_image"]
    ELSE Get(movie, "large_cover_image", "")

\* movie.get('large_cover_image') or movie.get('medium_cover_image'); "" when
\* the movie has neither
PosterUrl(movie) ==
    IF Get(movie, "large_cover_image", "") # ""
    THEN movie["large_cover_image"]
    ELSE Get(movie, "medium_cover_image", "")

\* send_notification(movie): the messages that reach the chat when the first
\* send succeeds (first_ok) or raises, and the text-only retry of
\* EnhancedMovieNotifier succeeds (fallback_ok) or raises.  MovieNotifier
\* sends one text and has no retry; InteractiveMovieBot sends as
\* EnhancedMovieNotifier does.
send_notification(movie, first_ok, fallback_ok, notifier) ==
    IF notifier \in {"EnhancedMovieNotifier", "InteractiveMovieBot"}
    THEN IF first_ok
         THEN IF PosterUrl(movie) # ""
              THEN <<PhotoMessage(movie, PosterUrl(movie))>>
              ELSE <<TextMessage(movie)>>
         ELSE IF fallback_ok THEN <<TextMessage(movie)>> ELSE <<>>
    ELSE IF first_ok THEN <<TextMessage(movie)>> ELSE <<>>

\* --------------------------------------------------- the catalog's entries
\* listing timestamps and clock readings are hours on one time line
Listed(h) == [kind |-> "iso", ts |-> h]
Malformed == [kind |-> "malformed", ts |-> 0]

Saw == [id |-> 1, title |-> <<"S","a","w">>, year |-> 2025, rating |-> 75,
        genres |-> {"Horror", "Thriller"}, date_uploaded |-> Listed(990),
        torrents |-> <<[seeds |-> 150], [seeds |-> 80]>>,
        large_cover_image |-> "url", medium_cover_image |-> "url_m"]
Up2 == [id |-> 2, title |-> <<"U","p"," ","2">>, year |-> 2025, rating |-> 60,
        genres |-> {"Action"}, date_uploaded |-> Malformed,
        medium_cover_image |-> "url"]
\* a second listing that carries the identifier of Saw
SawReissue == [id |-> 1, title |-> <<"S","a","w">>, year |-> 2026, rating |-> 80,
               genres |-> {"Sci-Fi"}]
ZeroId == [id |-> 0, title |-> <<"N","i","l">>, year |-> 2025, rating |-> 70,
           genres |-> {"Action"}, large_cover_image |-> "url"]
Funny == [id |-> 3, title |-> <<"H","a","p","p","y">>, year |-> 2025, rating |-> 90,
          genres |-> {"Comedy"}, torrents |-> <<[seeds |-> 60]>>]
Anonymous == [title |-> <<"P","a","r","t">>, year |-> 2026, rating |-> 85,
              genres |-> {"Action", "Adventure"}]
LowRated == [id |-> 4, title |-> <<"D","u","d">>, year |-> 2025, rating |-> 59,
             genres |-> {"Action"}]

\* what the catalog API can list in the polling specification
Catalog == {Saw, Up2, SawReissue, ZeroId, Funny, Anonymous, LowRated}

OldHit == [id |-> 2, title |-> <<"O","l","d">>, year |-> 2024, rating |-> 90,
           genres |-> {"Action"}]
Unrated == [id |-> 3, title |-> <<"N","e","w">>, year |-> 2025, genres |-> {"Action"}]
Undated == [id |-> 3, title |-> <<"N","e","w">>, rating |-> 70, genres |-> {"Action"}]
Bare == [id |-> 4, rating |-> 60, year |-> 2025]
ActionDrama == [id |-> 4, title |-> <<"W","a","r">>, year |-> 2026, rating |-> 95,
                genres |-> {"Action", "Drama"}]
\* the same listing as Up2 under another identifier: equal score and rating
Up2Twin == [id |-> 3, title |-> <<"U","p"," ","2">>, year |-> 2025, rating |-> 60,
            genres |-> {"Action"}, date_uploaded |-> Malformed,
            medium_cover_image |-> "url"]

\* equal scores with unequal ratings: 7.0 with one preferred genre against 8.0
\* with none (EnhancedMovieNotifier), 7.0 with one torrent against 8.0 with none
\* (MovieNotifier)
PlainEight == [id |-> 1, title |-> <<"O","n","e">>, year |-> 2025, rating |-> 80]
CrimeSeven == [id |-> 2, title |-> <<"T","w","o">>, year |-> 2025, rating |-> 70,
               genres |-> {"Crime"}]
TorrentSeven == [id |-> 2, title |-> <<"T","w","o">>, year |-> 2025, rating |-> 70,
                 torrents |-> <<[seeds |-> 5]>>]

\* the dicts handed to a direct call of the filter or of the tracker
Entries == Catalog \cup {OldHit, Unrated, Undated, Bare, ActionDrama, Up2Twin,
                         PlainEight, CrimeSeven, TorrentSeven}

\* the identifiers get_new_movies can have stored
Ids == {1, 2, 3, 4}

\* readings of the system clock: datetime.now() as [year, hours]
Clocks == { [year |-> 2025, hours |-> 1000], [year |-> 2025, hours |-> 1030],
            [year |-> 2026, hours |-> 1200] }

\* every list of at most n dicts drawn from S
SeqsUpTo(S, n) == UNION {[1..k -> S] : k \in 0..n}

\* the list [0, 1, ..., len-1] of positions of a list of dicts
AllRefs(heap) == [k \in 1..Len(heap) |-> k]

\* ------------------------------------------------------------------ state
VARIABLES
    notifier,           \* the class of the notifier object
    now,                \* the system clock
    known_movies,       \* self.known_movies
    last_check_time,    \* self.last_check_time (NoTime is None)
    pc,                 \* position of the running coroutine / caller
    cycles,             \* polling cycles started so far
    movies,             \* the fetched batch: the dict objects
    high_rated_movies,  \* result of filter_high_rated_movies
    new_movies,         \* result of get_new_movies
    i,                  \* position of the notification loop in new_movies
    known_at_start,     \* history: known_movies when the cycle or call began
    notified,           \* history: dicts passed to send_notification this cycle
    delivered,          \* history: identifiers whose message reached the chat
    returned,           \* history: times each identifier was returned as new
    attempts,           \* history: send_notification calls made per identifier
    again,              \* result of the repeated call of the direct-call driver
    evals,              \* calls of calculate_movie_score made by the scoring
                        \* driver, latest first: [movie, clock, score]
    tasks,              \* the check_and_notify coroutines running on one
                        \* notifier: position and locals of each
    handler,            \* the command handler in progress: position, locals,
                        \* commands served and the latest message it sent
    outbox,             \* history: messages that reached the chat, in order
                        \* (of the current cycle, for the notifiers)
    before_restart,     \* history: identifiers send_notification was called
                        \* for before the process was last restarted
    rejected,           \* history: identifiers of fetched entries the filter
                        \* rejects, over the runs of the process
    response            \* the YTS API's answer to the search request in
                        \* flight: outcome and data.movies

vars == <<notifier, now, known_movies, last_check_time, pc, cycles, movies,
          high_rated_movies, new_movies, i, known_at_start, notified,
          delivered, returned, attempts, again, evals, tasks, handler,
          outbox, before_restart, rejected, response>>

\* no search request has been made
NoResponse == [outcome |-> "none", movies |-> <<>>]

\* no command handler is running
NoReply == [kind |-> "none", photo |-> "", id |-> -1]
Idle == [pc |-> "idle", movies |-> <<>>, i |-> 0, served |-> 0, reply |-> NoReply]

NoTime == [year |-> 0, hours |-> 0]

Notifiers == {"EnhancedMovieNotifier", "MovieNotifier"}

\* __init__ of either notifier, then the start of run_continuous_monitoring
Init ==
    /\ notifier \in Notifiers
    /\ now \in Clocks
    /\ known_movies = {}
    /\ last_check_time = NoTime
    /\ pc = "start"
    /\ cycles = 0
    /\ movies = <<>>
    /\ high_rated_movies = <<>>
    /\ new_movies = <<>>
    /\ i = 0
    /\ known_at_start = {}
    /\ notified = <<>>
    /\ delivered = {}
    /\ returned = [id \in Ids |-> 0]
    /\ attempts = [id \in Ids |-> 0]
    /\ again = <<>>
    /\ evals = <<>>
    /\ tasks = <<>>
    /\ handler = Idle
    /\ outbox = <<>>
    /\ before_restart = {}
    /\ rejected = {}
    /\ response = NoResponse

\* ---------------------------------------------------- the polling cycle
\* check_and_notify: movies = await self.get_latest_movies(); the batch is
\* whatever the API lists, empty when the request fails
Fetch ==
    /\ pc = "start"
    /\ cycles < MaxCycles
    /\ \E batch \in SeqsUpTo(Catalog, MaxBatch) : movies' = batch
    /\ known_at_start' = known_movies
    /\ cycles' = cycles + 1
    /\ pc' = "fetched"
    /\ UNCHANGED <<evals, tasks, handler, outbox, before_restart, rejected, response>>
    /\ UNCHANGED <<notifier, now, known_movies, last_check_time,
                   high_rated_movies, new_movies, i, notified, delivered,
                   returned, attempts, again>>

\* Filter without the two early returns: the cycle always goes on to
\* get_new_movies
Filter_Continue ==
    /\ pc = "fetched"
    /\ LET res == filter_high_rated_movies(movies, AllRefs(movies), now, notifier)
       IN  /\ movies' = res.heap
           /\ high_rated_movies' = res.out
           /\ pc' = "filtered"
    /\ UNCHANGED <<evals, tasks, handler, outbox, before_restart, rejected, response>>
    /\ UNCHANGED <<notifier, now, known_movies, last_check_time, cycles,
                   new_movies, i, known_at_start, notified, delivered,
                   returned, attempts, again>>

\* check_and_notify: `if not movies: return`, then filter_high_rated_movies
\* and `if not high_rated_movies: return`
Filter ==
    /\ pc = "fetched"
    /\ IF movies = <<>>
       THEN /\ pc' = "returned"
            /\ UNCHANGED <<movies, high_rated_movies>>
       ELSE LET res == filter_high_rated_movies(movies, AllRefs(movies), now, notifier)
            IN  /\ movies' = res.heap
                /\ high_rated_movies' = res.out
                /\ pc' = IF res.out = <<>> THEN "returned" ELSE "filtered"
    /\ UNCHANGED <<evals, tasks, handler, outbox, before_restart, rejected, response>>
    /\ UNCHANGED <<notifier, now, known_movies, last_check_time, cycles,
                   new_movies, i, known_at_start, notified, delivered,
                   returned, attempts, again>>

\* GetNew passing the fetched batch, not the admitted entries, to
\* get_new_movies
GetNew_AllFetched ==
    /\ pc = "filtered"
    /\ LET res == get_new_movies(movies, AllRefs(movies), known_movies)
       IN  /\ new_movies' = res.out
           /\ known_movies' = res.known
           /\ returned' = [id \in Ids |->
                             returned[id] + Cardinality({k \in 1..Len(res.out) :
                                 Get(movies[res.out[k]], "id", NoId) = id})]
           /\ pc' = IF res.out = <<>> THEN "returned" ELSE "sending"
           /\ i' = IF res.out = <<>> THEN 0 ELSE 1
    /\ UNCHANGED <<evals, tasks, handler, outbox, before_restart, rejected, response>>
    /\ UNCHANGED <<notifier, now, last_check_time, cycles, movies,
                   high_rated_movies, known_at_start, notified, delivered,
                   attempts, again>>

\* check_and_notify: get_new_movies and `if not new_movies: return`
GetNew ==
    /\ pc = "filtered"
    /\ LET res == get_new_movies(movies, high_rated_movies, known_movies)
       IN  /\ new_movies' = res.out
           /\ known_movies' = res.known
           /\ returned' = [id \in Ids |->
                             returned[id] + Cardinality({k \in 1..Len(res.out) :
                                 Get(movies[res.out[k]], "id", NoId) = id})]
           /\ pc' = IF res.out = <<>> THEN "returned" ELSE "sending"
           /\ i' = IF res.out = <<>> THEN 0 ELSE 1
    /\ UNCHANGED <<evals, tasks, handler, outbox, before_restart, rejected, response>>
    /\ UNCHANGED <<notifier, now, last_check_time, cycles, movies,
                   high_rated_movies, known_at_start, notified, delivered,
                   attempts, again>>

\* one iteration of `for movie in new_movies: await self.send_notification(movie)`;
\* send_notification swallows every exception: first_ok is the outcome of the
\* first send (photo or text), fallback_ok that of the text-only retry.  After
\* the last iteration check_and_notify sets last_check_time and returns.
Send ==
    /\ pc = "sending"
    /\ \E first_ok \in BOOLEAN, fallback_ok \in BOOLEAN :
       \E msgs \in {send_notification(movies[new_movies[i]], first_ok,
                                      fallback_ok, notifier)} :
          /\ outbox' = outbox \o msgs
          /\ delivered' = IF msgs # <<>>
                          THEN delivered \cup {Get(movies[new_movies[i]], "id", NoId)}
                          ELSE delivered
    /\ notified' = Append(notified, new_movies[i])
    /\ attempts' = [attempts EXCEPT ![Get(movies[new_movies[i]], "id", NoId)] = @ + 1]
    /\ IF i = Len(new_movies)
       THEN /\ pc' = "returned"
            /\ last_check_time' = now
            /\ i' = i
       ELSE /\ i' = i + 1
            /\ UNCHANGED <<pc, last_check_time>>
    /\ UNCHANGED <<evals, tasks, handler, before_restart, rejected, response>>
    /\ UNCHANGED <<notifier, known_movies, now, cycles, movies,
                   high_rated_movies, new_movies, known_at_start, returned, again>>

\* run_continuous_monitoring: await asyncio.sleep(CHECK_INTERVAL) and loop; the
\* locals of the finished cycle are gone and the clock has moved on by the
\* interval
Sleep ==
    /\ pc = "returned"
    /\ now' = [now EXCEPT !.hours = @ + CHECK_INTERVAL]
    /\ pc' = "start"
    /\ movies' = <<>>
    /\ high_rated_movies' = <<>>
    /\ new_movies' = <<>>
    /\ notified' = <<>>
    /\ outbox' = <<>>
    /\ i' = 0
    /\ UNCHANGED <<evals, tasks, handler, before_restart, rejected, response>>
    /\ UNCHANGED <<notifier, known_movies, last_check_time, cycles,
                   known_at_start, delivered, returned, attempts, again>>

Next == Fetch \/ Filter \/ GetNew \/ Send \/ Sleep

Spec == Init /\ [][Next]_vars

\* ------------------------------------------------- direct calls (tests)
\* A caller that holds a notifier whose known_movies is any set S of stored
\* identifiers, builds a list of dicts and calls filter_high_rated_movies or
\* get_new_movies on it, then repeats the call on the result / the same list.
InitCalls ==
    /\ notifier \in Notifiers
    /\ now \in Clocks
    /\ known_movies \in SUBSET {1, 2}
    /\ known_at_start = known_movies
    /\ movies \in SeqsUpTo(Entries, MaxLen)
    /\ last_check_time = NoTime
    /\ pc = "call"
    /\ cycles = 0
    /\ high_rated_movies = <<>>
    /\ new_movies = <<>>
    /\ i = 0
    /\ notified = <<>>
    /\ delivered = {}
    /\ returned = [id \in Ids |-> 0]
    /\ attempts = [id \in Ids |-> 0]
    /\ again = <<>>
    /\ evals = <<>>
    /\ tasks = <<>>
    /\ handler = Idle
    /\ outbox = <<>>
    /\ before_restart = {}
    /\ rejected = {}
    /\ response = NoResponse

\* high_rated_movies = notifier.filter_high_rated_movies(movies)
CallFilter ==
    /\ pc = "call"
    /\ LET res == filter_high_rated_movies(movies, AllRefs(movies), now, notifier)
       IN  /\ movies' = res.heap
           /\ high_rated_movies' = res.out
    /\ pc' = "filter_returned"
    /\ UNCHANGED <<evals, tasks, handler, outbox, before_restart, rejected, response>>
    /\ UNCHANGED <<notifier, now, known_movies, last_check_time, cycles,
                   new_movies, i, known_at_start, notified, delivered,
                   returned, attempts, again>>

\* again = notifier.filter_high_rated_movies(high_rated_movies)
CallFilterAgain ==
    /\ pc = "filter_returned"
    /\ LET res == filter_high_rated_movies(movies, high_rated_movies, now, notifier)
       IN  /\ movies' = res.heap
           /\ again' = res.out
    /\ pc' = "filter_again"
    /\ UNCHANGED <<evals, tasks, handler, outbox, before_restart, rejected, response>>
    /\ UNCHANGED <<notifier, now, known_movies, last_check_time, cycles,
                   high_rated_movies, new_movies, i, known_at_start, notified,
                   delivered, returned, attempts>>

\* new_movies = notifier.get_new_movies(movies)
CallGetNew ==
    /\ pc = "call"
    /\ LET res == get_new_movies(movies, AllRefs(movies), known_movies)
       IN  /\ new_movies' = res.out
           /\ known_movies' = res.known
    /\ pc' = "get_new_returned"
    /\ UNCHANGED <<evals, tasks, handler, outbox, before_restart, rejected, response>>
    /\ UNCHANGED <<notifier, now, last_check_time, cycles, movies,
                   high_rated_movies, i, known_at_start, notified, delivered,
                   returned, attempts, again>>

\* again = notifier.get_new_movies(movies): the same list, the state left by
\* the first call
CallGetNewAgain ==
    /\ pc = "get_new_returned"
    /\ LET res == get_new_movies(movies, AllRefs(movies), known_movies)
       IN  /\ again' = res.out
           /\ known_movies' = res.known
    /\ pc' = "get_new_again"
    /\ UNCHANGED <<evals, tasks, handler, outbox, before_restart, rejected, response>>
    /\ UNCHANGED <<notifier, now, last_check_time, cycles, movies,
                   high_rated_movies, new_movies, i, known_at_start, notified,
                   delivered, returned, attempts>>

NextCalls == CallFilter \/ CallFilterAgain \/ CallGetNew \/ CallGetNewAgain

SpecCalls == InitCalls /\ [][NextCalls]_vars

\* ------------------------------------------------------ scoring driver
\* A caller that holds one movie dict, calls calculate_movie_score on it, then
\* changes one field of the dict (or lets the system clock move on) and calls
\* it again.  pc names the change made before the latest call.
Hedged == [id |-> 1, title |-> <<"S","a","w">>, year |-> 2024, rating |-> 60,
           genres |-> {"Horror"}, date_uploaded |-> Listed(800),
           torrents |-> <<[seeds |-> 150], [seeds |-> -100]>>]

ScoreEntries == {Saw, Up2, Hedged, Bare}

\* a fourth clock reading, ten hours after the first
ScoreClocks == Clocks \cup {[year |-> 2025, hours |-> 1010]}

RatingValues == {60, 75, 90}
YearValues == {2023, 2024, 2025, 2026, 2027}
SeedValues == {-100, 0, 60, 150, 250}
ListingHours == {200, 800, 900, 950, 976, 998}

\* one call score = notifier.calculate_movie_score(movie) at clock reading clock
Eval(movie, clock) ==
    [movie |-> movie, clock |-> clock,
     score |-> calculate_movie_score(movie, clock, notifier)]

\* the dict without the key k
DelKey(m, k) == [x \in (DOMAIN m) \ {k} |-> m[x]]

\* the torrents with every negative seed count replaced by 0
Clamped(torrents) ==
    [k \in 1..Len(torrents) |->
        IF Get(torrents[k], "seeds", 0) < 0
        THEN SetKey(torrents[k], "seeds", 0)
        ELSE torrents[k]]

InitScore ==
    /\ notifier \in Notifiers
    /\ now \in ScoreClocks
    /\ \E m \in ScoreEntries : evals = <<Eval(m, now)>>
    /\ pc = "scored"
    /\ known_movies = {}
    /\ known_at_start = {}
    /\ movies = <<>>
    /\ last_check_time = NoTime
    /\ cycles = 0
    /\ high_rated_movies = <<>>
    /\ new_movies = <<>>
    /\ i = 0
    /\ notified = <<>>
    /\ delivered = {}
    /\ returned = [id \in Ids |-> 0]
    /\ attempts = [id \in Ids |-> 0]
    /\ again = <<>>
    /\ tasks = <<>>
    /\ handler = Idle
    /\ outbox = <<>>
    /\ before_restart = {}
    /\ rejected = {}
    /\ response = NoResponse

\* the next call, on the dict `movie`, after a change of kind `change`
ScoreAgain(movie, clock, change) ==
    /\ Len(evals) < MaxEvals
    /\ evals' = <<Eval(movie, clock)>> \o evals
    /\ now' = clock
    /\ pc' = change
    /\ UNCHANGED <<tasks, handler, outbox, before_restart, rejected, response>>
    /\ UNCHANGED <<notifier, known_movies, last_check_time, cycles, movies,
                   high_rated_movies, new_movies, i, known_at_start, notified,
                   delivered, returned, attempts, again>>

\* the same dict scored again when datetime.now() reads later
Rescore ==
    \E later \in ScoreClocks :
        /\ later.hours > now.hours
        /\ later.year >= now.year
        /\ ScoreAgain(evals[1].movie, later, "rescored")

\* movie['rating'] raised
RaiseRating ==
    \E v \in RatingValues :
        /\ v > Get(evals[1].movie, "rating", 0)
        /\ ScoreAgain(SetKey(evals[1].movie, "rating", v), now, "raised_rating")

\* movie['year'] raised
RaiseYear ==
    \E v \in YearValues :
        /\ v > Get(evals[1].movie, "year", 0)
        /\ ScoreAgain(SetKey(evals[1].movie, "year", v), now, "raised_year")

\* the seed count of one torrent raised
RaiseSeeds ==
    LET torrents == Get(evals[1].movie, "torrents", <<>>)
    IN  \E k \in 1..Len(torrents), v \in SeedValues :
            /\ v > Get(torrents[k], "seeds", 0)
            /\ ScoreAgain(SetKey(evals[1].movie, "torrents",
                                 [torrents EXCEPT ![k] = SetKey(@, "seeds", v)]),
                          now, "raised_seeds")

\* movie['date_uploaded'] moved to a later hour, not after the clock reading
ListLater ==
    LET date_added == Get(evals[1].movie, "date_uploaded", Malformed)
    IN  /\ date_added.kind = "iso"
        /\ \E h \in ListingHours :
              /\ date_added.ts < h
              /\ h <= now.hours
              /\ ScoreAgain(SetKey(evals[1].movie, "date_uploaded", Listed(h)),
                            now, "listed_later")

\* the key 'date_uploaded' deleted
RemoveDate ==
    /\ "date_uploaded" \in DOMAIN evals[1].movie
    /\ ScoreAgain(DelKey(evals[1].movie, "date_uploaded"), now, "date_removed")

\* movie['date_uploaded'] = ''
EmptyDate ==
    /\ Get(evals[1].movie, "date_uploaded", Malformed).kind # "empty"
    /\ ScoreAgain(SetKey(evals[1].movie, "date_uploaded", [kind |-> "empty", ts |-> 0]),
                  now, "date_emptied")

\* movie['date_uploaded'] = a string that is not an ISO date
CorruptDate ==
    /\ Get(evals[1].movie, "date_uploaded", [kind |-> "empty", ts |-> 0]).kind
          # "malformed"
    /\ ScoreAgain(SetKey(evals[1].movie, "date_uploaded", Malformed),
                  now, "date_corrupted")

\* every negative seed count of the dict replaced by 0
ClampSeeds ==
    LET torrents == Get(evals[1].movie, "torrents", <<>>)
    IN  /\ \E k \in 1..Len(torrents) : Get(torrents[k], "seeds", 0) < 0
        /\ ScoreAgain(SetKey(evals[1].movie, "torrents", Clamped(torrents)),
                      now, "clamped")

NextScore ==
    \/ Rescore \/ RaiseRating \/ RaiseYear \/ RaiseSeeds \/ ListLater
    \/ RemoveDate \/ EmptyDate \/ CorruptDate \/ ClampSeeds

SpecScore == InitScore /\ [][NextScore]_vars

\* ------------------------------------------------- concurrent cycles
\* Two check_and_notify coroutines scheduled on one event loop against the same
\* notifier.  A coroutine runs until it awaits; the awaits of check_and_notify
\* are `await self.get_latest_movies()`, `await self.send_notification(movie)`
\* and `await asyncio.sleep(2)`.  Everything between two awaits is one action.
Tasks == {1, 2}

ConcCatalog == {Saw, SawReissue, Up2}

InitConc ==
    /\ notifier \in Notifiers
    /\ now = [year |-> 2025, hours |-> 1000]
    /\ known_movies = {}
    /\ known_at_start = {}
    /\ tasks = [t \in Tasks |->
                  [pc |-> "start", movies |-> <<>>, high_rated_movies |-> <<>>,
                   new_movies |-> <<>>, i |-> 0]]
    /\ last_check_time = NoTime
    /\ pc = "start"
    /\ cycles = 0
    /\ movies = <<>>
    /\ high_rated_movies = <<>>
    /\ new_movies = <<>>
    /\ i = 0
    /\ notified = <<>>
    /\ delivered = {}
    /\ returned = [id \in Ids |-> 0]
    /\ attempts = [id \in Ids |-> 0]
    /\ again = <<>>
    /\ evals = <<>>
    /\ handler = Idle
    /\ outbox = <<>>
    /\ before_restart = {}
    /\ rejected = {}
    /\ response = NoResponse

\* movies = await self.get_latest_movies(): each coroutine gets its own list of
\* freshly parsed dicts
TaskFetch(t) ==
    /\ tasks[t].pc = "start"
    /\ \E batch \in SeqsUpTo(ConcCatalog, MaxConcBatch) :
          tasks' = [tasks EXCEPT ![t].movies = batch, ![t].pc = "fetched"]
    /\ UNCHANGED <<notifier, now, known_movies, last_check_time, pc, cycles,
                   movies, high_rated_movies, new_movies, i, known_at_start,
                   notified, delivered, returned, attempts, again, evals,
                   handler, outbox, before_restart, rejected, response>>

\* check_and_notify from `if not movies` down to the first
\* `await self.send_notification`: filter_high_rated_movies and get_new_movies
\* are plain functions, so the coroutine is not suspended in between
TaskSelect(t) ==
    /\ tasks[t].pc = "fetched"
    /\ \E mine \in {tasks[t]} :
       \E filtered \in {filter_high_rated_movies(mine.movies, AllRefs(mine.movies),
                                                 now, notifier)} :
       \E res \in {get_new_movies(filtered.heap, filtered.out, known_movies)} :
           IF mine.movies = <<>>
           THEN /\ tasks' = [tasks EXCEPT ![t].pc = "returned"]
                /\ UNCHANGED <<known_movies, returned>>
           ELSE IF filtered.out = <<>>
           THEN /\ tasks' = [tasks EXCEPT ![t].movies = filtered.heap,
                                          ![t].pc = "returned"]
                /\ UNCHANGED <<known_movies, returned>>
           ELSE /\ tasks' = [tasks EXCEPT
                                ![t].movies = filtered.heap,
                                ![t].high_rated_movies = filtered.out,
                                ![t].new_movies = res.out,
                                ![t].i = IF res.out = <<>> THEN 0 ELSE 1,
                                ![t].pc = IF res.out = <<>> THEN "returned"
                                          ELSE "sending"]
                /\ known_movies' = res.known
                /\ returned' = [id \in Ids |->
                                  returned[id] + Cardinality({k \in 1..Len(res.out) :
                                      Get(filtered.heap[res.out[k]], "id", NoId) = id})]
    /\ UNCHANGED <<notifier, now, last_check_time, pc, cycles, movies,
                   high_rated_movies, new_movies, i, known_at_start, notified,
                   delivered, attempts, again, evals,
                   handler, outbox, before_restart, rejected, response>>

\* one iteration of the sending loop: the coroutine is suspended in
\* send_notification and in asyncio.sleep(2); whether the send succeeds
\* changes nothing the coroutines share.  After the last iteration
\* check_and_notify sets last_check_time and returns.
TaskSend(t) ==
    /\ tasks[t].pc = "sending"
    /\ IF tasks[t].i = Len(tasks[t].new_movies)
       THEN /\ tasks' = [tasks EXCEPT ![t].pc = "returned"]
            /\ last_check_time' = now
       ELSE /\ tasks' = [tasks EXCEPT ![t].i = @ + 1]
            /\ UNCHANGED last_check_time
    /\ UNCHANGED <<notifier, now, known_movies, pc, cycles, movies,
                   high_rated_movies, new_movies, i, known_at_start, notified,
                   delivered, returned, attempts, again, evals,
                   handler, outbox, before_restart, rejected, response>>

ConcFetch == \E t \in Tasks : TaskFetch(t)
ConcSelect == \E t \in Tasks : TaskSelect(t)
ConcSend == \E t \in Tasks : TaskSend(t)

NextConc == ConcFetch \/ ConcSelect \/ ConcSend

SpecConc == InitConc /\ [][NextConc]_vars

\* ------------------------------------------------- InteractiveMovieBot
\* run_bot: the monitoring task (run_continuous_monitoring) and the command
\* handlers run on one event loop; a handler and the monitoring task are
\* interleaved at their awaits, handlers are served one at a time.
BotCatalog == {Saw, Up2}

\* a reply of a command handler that is not about one movie
Reply(kind) == [kind |-> kind, photo |-> "", id |-> NoId]

RECURSIVE MergeSearch(_, _)
\* get_latest_movies: the '28 Years Later' results whose id no entry of the
\* list carries yet are appended to the latest movies
MergeSearch(latest, search_movies) ==
    IF search_movies = <<>> THEN latest
    ELSE LET search_movie == Head(search_movies)
         IN  MergeSearch(
                 IF \E k \in 1..Len(latest) :
                        Get(latest[k], "id", NoId) = Get(search_movie, "id", NoId)
                 THEN latest
                 ELSE Append(latest, search_movie),
                 Tail(search_movies))

InitBot ==
    /\ notifier = "InteractiveMovieBot"
    /\ now = [year |-> 2025, hours |-> 1000]
    /\ known_movies = {}
    /\ last_check_time = NoTime
    /\ pc = "start"
    /\ cycles = 0
    /\ movies = <<>>
    /\ high_rated_movies = <<>>
    /\ new_movies = <<>>
    /\ i = 0
    /\ known_at_start = {}
    /\ notified = <<>>
    /\ delivered = {}
    /\ returned = [id \in Ids |-> 0]
    /\ attempts = [id \in Ids |-> 0]
    /\ again = <<>>
    /\ evals = <<>>
    /\ tasks = <<>>
    /\ handler = Idle
    /\ outbox = <<>>
    /\ before_restart = {}
    /\ rejected = {}
    /\ response = NoResponse

\* check_and_notify: movies = await self.get_latest_movies(); [] when a
\* request fails
BotFetch ==
    /\ pc = "start"
    /\ cycles < MaxBotCycles
    /\ \E latest \in SeqsUpTo(BotCatalog, MaxBotBatch),
          search_movies \in SeqsUpTo(BotCatalog, 1), ok \in BOOLEAN :
            movies' = IF ok THEN MergeSearch(latest, search_movies) ELSE <<>>
    /\ known_at_start' = known_movies
    /\ cycles' = cycles + 1
    /\ pc' = "fetched"
    /\ UNCHANGED <<evals, tasks, handler, outbox, before_restart, rejected, response>>
    /\ UNCHANGED <<notifier, now, known_movies, last_check_time,
                   high_rated_movies, new_movies, i, notified, delivered,
                   returned, attempts, again>>

\* what a command handler leaves alone: the monitoring task, its locals and
\* the notifications in the chat
HandlerFrame ==
    UNCHANGED <<notifier, now, last_check_time, pc, cycles, movies,
                high_rated_movies, new_movies, i, known_at_start, notified,
                delivered, returned, attempts, again, evals, tasks, outbox,
                before_restart, rejected, response>>

StartCommand ==
    /\ handler.pc = "idle"
    /\ handler.served < MaxCommands
    /\ handler' = [handler EXCEPT !.served = @ + 1, !.reply = Reply("welcome")]
    /\ UNCHANGED known_movies
    /\ HandlerFrame

HelpCommand ==
    /\ handler.pc = "idle"
    /\ handler.served < MaxCommands
    /\ handler' = [handler EXCEPT !.served = @ + 1, !.reply = Reply("help")]
    /\ UNCHANGED known_movies
    /\ HandlerFrame

\* the status message shows last_check_time and len(self.known_movies)
StatusCommand ==
    /\ handler.pc = "idle"
    /\ handler.served < MaxCommands
    /\ handler' = [handler EXCEPT
                      !.served = @ + 1,
                      !.reply = [kind |-> "status", photo |-> "", id |-> NoId,
                                 last_check |-> last_check_time,
                                 known |-> Cardinality(known_movies)]]
    /\ UNCHANGED known_movies
    /\ HandlerFrame

\* search_command up to `movies = await self.search_movies(query)`: without
\* arguments the usage reply, else the 'Searching' reply
SearchCommand ==
    /\ handler.pc = "idle"
    /\ handler.served < MaxCommands
    /\ \E has_args \in BOOLEAN :
          handler' = IF has_args
                     THEN [handler EXCEPT !.pc = "searching",
                                          !.reply = Reply("searching")]
                     ELSE [handler EXCEPT !.served = @ + 1,
                                          !.reply = Reply("usage")]
    /\ UNCHANGED known_movies
    /\ HandlerFrame

\* search_movies returns what the API found ([] when the request fails);
\* `if not movies` gives the 'No movies found' reply
SearchFetch ==
    /\ handler.pc = "searching"
    /\ \E found \in SeqsUpTo(BotCatalog, MaxBotBatch) :
          handler' = IF found = <<>>
                     THEN [handler EXCEPT !.pc = "idle", !.served = @ + 1,
                                          !.reply = Reply("not_found")]
                     ELSE [handler EXCEPT !.pc = "replying", !.movies = found,
                                          !.i = 1]
    /\ UNCHANGED known_movies
    /\ HandlerFrame

\* SearchReply that also records the movie shown as known
SearchReply_Tracks ==
    /\ handler.pc = "replying"
    /\ LET movie == handler.movies[handler.i]
           last == handler.i = Min(Len(handler.movies), 3)
       IN  /\ known_movies' = known_movies \cup {Get(movie, "id", NoId)}
           /\ handler' = IF last
                         THEN [handler EXCEPT !.pc = "idle", !.movies = <<>>,
                                              !.i = 0, !.served = @ + 1,
                                              !.reply = TextMessage(movie)]
                         ELSE [handler EXCEPT !.i = @ + 1,
                                              !.reply = TextMessage(movie)]
    /\ HandlerFrame

\* one iteration of `for i, movie in enumerate(movies[:3], 1)`: the photo, or
\* the text when there is no poster or the photo fails; an exception of the
\* text reply ends the handler with the error reply.  After the last
\* iteration the summary when more than 3 movies were found.
SearchReply ==
    /\ handler.pc = "replying"
    /\ LET movie == handler.movies[handler.i]
           last == handler.i = Min(Len(handler.movies), 3)
           done == [handler EXCEPT !.pc = "idle", !.movies = <<>>, !.i = 0,
                                   !.served = @ + 1]
       IN  \E first_ok \in BOOLEAN, text_ok \in BOOLEAN :
              handler' =
                 IF (PosterUrl(movie) # "" /\ first_ok) \/ text_ok
                 THEN LET shown == IF PosterUrl(movie) # "" /\ first_ok
                                   THEN PhotoMessage(movie, PosterUrl(movie))
                                   ELSE TextMessage(movie)
                      IN  IF ~last THEN [handler EXCEPT !.i = @ + 1, !.reply = shown]
                          ELSE IF Len(handler.movies) > 3
                          THEN [done EXCEPT !.reply = Reply("summary")]
                          ELSE [done EXCEPT !.reply = shown]
                 ELSE [done EXCEPT !.reply = Reply("error")]
    /\ UNCHANGED known_movies
    /\ HandlerFrame

NextBot ==
    \/ BotFetch \/ Filter \/ GetNew \/ Send \/ Sleep
    \/ StartCommand \/ HelpCommand \/ StatusCommand
    \/ SearchCommand \/ SearchFetch \/ SearchReply

SpecBot == InitBot /\ [][NextBot]_vars

\* ------------------------------------------------- runs of the process
\* The notifier process polls, is stopped at any point and started again:
\* main() builds a new notifier object and runs its monitoring loop.  Between
\* two polls the catalog may list an entry again with another rating.
BlankId == [id |-> EmptyId, title |-> <<"N","u","l">>, year |-> 2025,
            rating |-> 70, genres |-> {"Action"}]
\* LowRated after its rating has risen to the minimum
Rerated == [id |-> 4, title |-> <<"D","u","d">>, year |-> 2025, rating |-> 60,
            genres |-> {"Action"}]

RunsCatalog == {Saw, LowRated, Rerated, ZeroId, BlankId}

\* the first run starts at one clock reading
InitRuns == Init /\ now = [year |-> 2025, hours |-> 1000]

\* check_and_notify: movies = await self.get_latest_movies()
FetchListing ==
    /\ pc \in {"start", "restarted"}
    /\ cycles < MaxCycles
    /\ \E batch \in SeqsUpTo(RunsCatalog, MaxBatch) :
          /\ movies' = batch
          /\ rejected' = rejected \cup
                {Get(batch[k], "id", NoId) :
                    k \in {n \in 1..Len(batch) : ~Admits(batch[n], notifier)}}
    /\ known_at_start' = known_movies
    /\ cycles' = cycles + 1
    /\ pc' = "fetched"
    /\ UNCHANGED <<evals, tasks, handler, outbox, before_restart, response>>
    /\ UNCHANGED <<notifier, now, known_movies, last_check_time,
                   high_rated_movies, new_movies, i, notified, delivered,
                   returned, attempts, again>>

\* Restart that loads the identifiers of the previous run
Restart_Persist ==
    /\ pc \in {"start", "sending", "returned"}
    /\ last_check_time' = NoTime
    /\ pc' = "restarted"
    /\ movies' = <<>>
    /\ high_rated_movies' = <<>>
    /\ new_movies' = <<>>
    /\ notified' = <<>>
    /\ outbox' = <<>>
    /\ i' = 0
    /\ before_restart' = {id \in Ids : attempts[id] > 0}
    /\ UNCHANGED <<evals, tasks, handler, rejected, response>>
    /\ UNCHANGED <<notifier, now, known_movies, cycles, known_at_start,
                   delivered, returned, attempts, again>>

\* the process ends while the loop is suspended (in the sending loop or in a
\* sleep) or before its first cycle, and main() runs again:
\* notifier = EnhancedMovieNotifier() sets known_movies = set() and
\* last_check_time = None; the locals of the interrupted cycle are gone
Restart ==
    /\ pc \in {"start", "sending", "returned"}
    /\ known_movies' = {}
    /\ last_check_time' = NoTime
    /\ pc' = "restarted"
    /\ movies' = <<>>
    /\ high_rated_movies' = <<>>
    /\ new_movies' = <<>>
    /\ notified' = <<>>
    /\ outbox' = <<>>
    /\ i' = 0
    /\ before_restart' = {id \in Ids : attempts[id] > 0}
    /\ UNCHANGED <<evals, tasks, handler, rejected, response>>
    /\ UNCHANGED <<notifier, now, cycles, known_at_start,
                   delivered, returned, attempts, again>>

NextRuns == FetchListing \/ Filter \/ GetNew \/ Send \/ Sleep \/ Restart

SpecRuns == InitRuns /\ [][NextRuns]_vars

\* ------------------------------------------------- vocabulary of the claims
Range(seq) == {seq[k] : k \in 1..Len(seq)}

\* the identifier of the dict at position r of the batch
IdOf(r) == Get(movies[r], "id", NoId)

\* the admission criteria as the specification words them
MeetsCriteria(movie) ==
    /\ Get(movie, "rating", 0) >= MIN_RATING
    /\ Get(movie, "year", 0) >= MIN_YEAR
    /\ \A g \in Get(movie, "genres", {}) : g \notin EXCLUDED_GENRES(notifier)

\* the dict at r is ranked before the dict at q: higher score, then higher rating
RankedAbove(r, q) ==
    \/ movies[r]["_score"] > movies[q]["_score"]
    \/ /\ movies[r]["_score"] = movies[q]["_score"]
       /\ Get(movies[r], "rating", 0) > Get(movies[q], "rating", 0)

SameRank(r, q) == ~RankedAbove(r, q) /\ ~RankedAbove(q, r)

\* seq lists positions in descending order of score, then of rating
Descending(seq) ==
    \A a, b \in 1..Len(seq) : a < b => ~RankedAbove(seq[b], seq[a])

\* ---------------------------------------------------------------- claims

\* C1: over any sequence of polling cycles on one notifier, get_new_movies
\* never returns an entry whose identifier is already in known_movies; every
\* identifier is returned as new by at most one call, and at most one
\* notification is attempted for it.
C1_NeverReturnedTwice ==
    /\ \A k \in 1..Len(new_movies) : IdOf(new_movies[k]) \notin known_at_start
    /\ \A id \in Ids : returned[id] <= 1 /\ attempts[id] <= 1

\* a second cycle has fetched and admitted an entry whose identifier an earlier
\* cycle stored, and get_new_movies has returned nothing
C1_Witness ==
    /\ cycles = 2
    /\ pc = "returned"
    /\ high_rated_movies # <<>>
    /\ new_movies = <<>>
    /\ \E k \in 1..Len(high_rated_movies) :
          /\ IdOf(high_rated_movies[k]) \in known_at_start
          /\ attempts[IdOf(high_rated_movies[k])] = 1

\* C2 as stated: get_new_movies returns exactly the entries, in input order,
\* whose identifier is not in S and is not carried by an earlier entry of the
\* call; afterwards the state is S united with the identifiers returned.
\* (Read in the claim's favour: an entry that has no 'id' key at all has no
\* identifier and is not expected in the result.)
C2_ExactlyTheUnseen ==
    pc = "get_new_returned" =>
        /\ new_movies = SelectSeq(AllRefs(movies), LAMBDA r :
                /\ "id" \in DOMAIN movies[r]
                /\ IdOf(r) \notin known_at_start
                /\ \A q \in 1..(r - 1) : IdOf(q) # IdOf(r))
        /\ known_movies = known_at_start \cup {IdOf(r) : r \in Range(new_movies)}

\* C2 amended: get_new_movies returns exactly the entries, in input order,
\* whose identifier is present and truthy (not None, not 0), is not in S and is
\* not carried by an earlier entry of the call; afterwards the state is S
\* united with the identifiers returned.
C2_ExactlyTheUnseenTruthy ==
    pc = "get_new_returned" =>
        /\ new_movies = SelectSeq(AllRefs(movies), LAMBDA r :
                /\ IdOf(r) # NoId /\ IdOf(r) # 0
                /\ IdOf(r) \notin known_at_start
                /\ \A q \in 1..(r - 1) : IdOf(q) # IdOf(r))
        /\ known_movies = known_at_start \cup {IdOf(r) : r \in Range(new_movies)}

\* the call was given an entry without a usable identifier next to one it returned
C2_Witness ==
    /\ pc = "get_new_returned"
    /\ \E r \in 1..Len(movies) : IdOf(r) \in {NoId, 0}
    /\ new_movies # <<>>
    /\ known_at_start # {}

\* C3: an entry is in the output of filter_high_rated_movies iff its rating is
\* >= MIN_RATING, its year is >= MIN_YEAR and none of its genres is excluded.
C3_AdmittedIffCriteria ==
    pc = "filter_returned" =>
        \A r \in 1..Len(movies) :
            (r \in Range(high_rated_movies)) <=> MeetsCriteria(movies[r])

\* an entry exactly at both minimums was admitted and a highly rated Comedy of
\* the current year was rejected by the enhanced notifier
C3_Witness ==
    /\ pc = "filter_returned"
    /\ notifier = "EnhancedMovieNotifier"
    /\ \E r \in Range(high_rated_movies) :
          movies[r]["rating"] = MIN_RATING /\ movies[r]["year"] = MIN_YEAR
    /\ \E r \in 1..Len(movies) :
          /\ "Comedy" \in Get(movies[r], "genres", {})
          /\ Get(movies[r], "rating", 0) > MIN_RATING
          /\ r \notin Range(high_rated_movies)

\* C4 as stated: at the end of every polling cycle every identifier in
\* known_movies belongs to an entry whose notification was delivered.
C4_KnownOnlyIfDelivered ==
    pc = "returned" => known_movies \subseteq delivered

\* C5: a second call of get_new_movies with the same entries and the state left
\* by the first call returns an empty list and leaves the state unchanged.
C5_SecondCallEmpty ==
    [][ (pc = "get_new_returned" /\ pc' = "get_new_again")
            => (again' = <<>> /\ known_movies' = known_movies
                /\ Cardinality(known_movies') = Cardinality(known_movies)) ]_vars

\* the first call returned entries and the second call has been made
C5_Witness ==
    /\ pc = "get_new_again"
    /\ Len(new_movies) = 2

\* C6: known_movies is empty when the notifier is created and only grows: no
\* operation removes an identifier.
C6_OnlyGrows ==
    /\ known_movies = {}
    /\ [][known_movies \subseteq known_movies']_vars

\* two cycles have each added an identifier
C6_Witness ==
    /\ cycles = 2
    /\ new_movies # <<>>
    /\ known_at_start # {}
    /\ known_at_start # known_movies

\* C7: the admitted entries are ordered by descending score, then by
\* descending rating, and entries with identical score and rating keep their
\* relative input order.
C7_SortedStable ==
    pc = "filter_returned" =>
        \A a, b \in 1..Len(high_rated_movies) : a < b =>
            LET r == high_rated_movies[a]
                q == high_rated_movies[b]
            IN  \/ movies[r]["_score"] > movies[q]["_score"]
                \/ /\ movies[r]["_score"] = movies[q]["_score"]
                   /\ Get(movies[r], "rating", 0) > Get(movies[q], "rating", 0)
                \/ /\ movies[r]["_score"] = movies[q]["_score"]
                   /\ Get(movies[r], "rating", 0) = Get(movies[q], "rating", 0)
                   /\ r < q

\* the filter has put a later, equally scored but higher rated entry first
C7_Witness ==
    /\ pc = "filter_returned"
    /\ Len(high_rated_movies) = 2
    /\ high_rated_movies[1] > high_rated_movies[2]
    /\ movies[high_rated_movies[1]]["_score"] = movies[high_rated_movies[2]]["_score"]

\* C8 as stated: in one cycle the entries notified are exactly the admitted
\* entries of the batch whose identifier was not in known_movies at the start
\* of the cycle, sent in descending order of score (ties by descending rating).
\* (Read in the claim's favour: only entries whose identifier is present and
\* truthy are expected to be notified.)
C8_NotifiedAllUnseen ==
    pc = "returned" =>
        /\ Range(notified) = {r \in 1..Len(movies) :
                                /\ MeetsCriteria(movies[r])
                                /\ IdOf(r) # NoId /\ IdOf(r) # 0
                                /\ IdOf(r) \notin known_at_start}
        /\ Descending(notified)

\* C8 amended: in one cycle the entries notified are exactly the admitted
\* entries of the batch whose identifier is present and truthy, was not in
\* known_movies at the start of the cycle and is not carried by an admitted
\* entry ranked before them (higher score, then higher rating, then earlier in
\* the batch); they are sent, once each, in descending order of score (ties by
\* descending rating).
C8_NotifiedFirstUnseen ==
    pc = "returned" =>
        /\ Range(notified) = {r \in 1..Len(movies) :
                /\ MeetsCriteria(movies[r])
                /\ IdOf(r) # NoId /\ IdOf(r) # 0
                /\ IdOf(r) \notin known_at_start
                /\ \A q \in 1..Len(movies) :
                      (q # r /\ MeetsCriteria(movies[q]) /\ IdOf(q) = IdOf(r))
                          => ~(RankedAbove(q, r) \/ (SameRank(q, r) /\ q < r))}
        /\ Len(notified) = Cardinality(Range(notified))
        /\ Descending(notified)

\* a cycle has notified one of two admitted entries that share an unseen
\* identifier, the one that came second in the fetched batch
C8_Witness ==
    /\ pc = "returned"
    /\ notified = <<2>>
    /\ MeetsCriteria(movies[1])
    /\ IdOf(1) = IdOf(2)

\* C9 as stated: the output of filter_high_rated_movies is a subsequence of its
\* input: every returned entry is an input entry and the returned entries
\* appear in the relative order they had in the input.
C9_Subsequence ==
    pc = "filter_returned" =>
        /\ Range(high_rated_movies) \subseteq 1..Len(movies)
        /\ \A a, b \in 1..Len(high_rated_movies) :
              a < b => high_rated_movies[a] < high_rated_movies[b]

\* C9 amended: every returned entry is an input entry and is returned once;
\* the returned entries appear in the relative order they had in the input
\* only where they have the same score and the same rating.
C9_SubsetTiesInOrder ==
    pc = "filter_returned" =>
        /\ Range(high_rated_movies) \subseteq 1..Len(movies)
        /\ Cardinality(Range(high_rated_movies)) = Len(high_rated_movies)
        /\ \A a, b \in 1..Len(high_rated_movies) :
              (a < b /\ SameRank(high_rated_movies[a], high_rated_movies[b]))
                  => high_rated_movies[a] < high_rated_movies[b]

\* the filter has returned two equally ranked entries
C9_Witness ==
    /\ pc = "filter_returned"
    /\ Len(high_rated_movies) = 2
    /\ SameRank(high_rated_movies[1], high_rated_movies[2])
    /\ IdOf(1) # IdOf(2)

\* C10: for a fixed configuration and clock, filter_high_rated_movies applied
\* to its own output returns the same sequence: same entries, same order.
C10_Idempotent ==
    [][ (pc = "filter_returned" /\ pc' = "filter_again")
            => (again' = high_rated_movies /\ movies' = movies) ]_vars

\* the filter has been applied to an output that it had reordered
C10_Witness ==
    /\ pc = "filter_again"
    /\ Len(again) = 2
    /\ again[1] > again[2]

\* C11 as stated: filter_high_rated_movies has no side effects: after it
\* returns every entry of the input batch has the fields and values it had
\* before the call, and known_movies is unchanged.
C11_NoSideEffects ==
    [][ (pc = "call" /\ pc' = "filter_returned")
            => (movies' = movies /\ known_movies' = known_movies) ]_vars

\* C11 amended: the only effect of filter_high_rated_movies on its input is
\* that every admitted entry has the key '_score' set; the other fields of an
\* admitted entry, every rejected entry, the length and order of the input
\* list, and known_movies are unchanged.
C11_OnlyScoreWritten ==
    [][ (pc = "call" /\ pc' = "filter_returned")
            => /\ known_movies' = known_movies
               /\ Len(movies') = Len(movies)
               /\ \A r \in 1..Len(movies) :
                     IF r \in Range(high_rated_movies')
                     THEN /\ DOMAIN movies'[r] = DOMAIN movies[r] \cup {"_score"}
                          /\ \A k \in DOMAIN movies[r] :
                                k # "_score" => movies'[r][k] = movies[r][k]
                     ELSE movies'[r] = movies[r] ]_vars

\* the filter has returned after admitting one entry of the batch and
\* rejecting another
C11_Witness ==
    /\ pc = "filter_returned"
    /\ known_movies # {}
    /\ \E r \in 1..Len(movies) : "_score" \in DOMAIN movies[r]
    /\ \E r \in 1..Len(movies) : "_score" \notin DOMAIN movies[r]

\* C12: filter_high_rated_movies never fails on an entry whose rating, year or
\* genres field is missing: a missing rating or year counts as 0, so the entry
\* is rejected, a missing genre set counts as empty, and the other entries of
\* the batch are admitted or rejected on their own fields.
\* (Every field is read with dict.get and a default, so the call has no raising
\* path on a missing key: it returns for every batch.)
C12_TotalOnMissingFields ==
    pc = "filter_returned" =>
        \A r \in 1..Len(movies) :
            LET m == movies[r]
                admitted == r \in Range(high_rated_movies)
            IN  /\ ("rating" \notin DOMAIN m \/ "year" \notin DOMAIN m) => ~admitted
                /\ ({"rating", "year"} \subseteq DOMAIN m /\ "genres" \notin DOMAIN m)
                      => (admitted <=> (m["rating"] >= MIN_RATING /\ m["year"] >= MIN_YEAR))
                /\ ({"rating", "year", "genres"} \subseteq DOMAIN m)
                      => (admitted <=> /\ m["rating"] >= MIN_RATING
                                       /\ m["year"] >= MIN_YEAR
                                       /\ m["genres"] \cap EXCLUDED_GENRES(notifier) = {})

\* a batch whose first entry has no rating: it was rejected and the entry after
\* it, which has no genres, was admitted
C12_Witness ==
    /\ pc = "filter_returned"
    /\ Len(movies) = 2
    /\ "rating" \notin DOMAIN movies[1]
    /\ "genres" \notin DOMAIN movies[2]
    /\ high_rated_movies = <<2>>

\* ------------------------------------------------------------- C13..C17
\* the listing timestamp of a scored dict, and its age at the call
DateOf(movie) == Get(movie, "date_uploaded", [kind |-> "empty", ts |-> 0])
AgeAt(e) == e.clock.hours - DateOf(e.movie).ts

\* the recency tier of the listing at the call; 0 when there is no timestamp
\* to place
Tier(e) ==
    IF DateOf(e.movie).kind # "iso" THEN 0
    ELSE IF AgeAt(e) <= 24 THEN 1
    ELSE IF AgeAt(e) <= 72 THEN 2
    ELSE IF AgeAt(e) <= 168 THEN 3
    ELSE IF AgeAt(e) <= 720 THEN 4
    ELSE 5

\* C13 (as stated): two evaluations of the score of the same entry give the
\* same value whatever the system clock reads at each evaluation.
C13_ClockIndependent ==
    \A a, b \in 1..Len(evals) :
        evals[a].movie = evals[b].movie => evals[a].score = evals[b].score

\* C13 (amended): calculate_movie_score takes no 'now' and reads the system
\* clock itself; two evaluations of the same entry give the same value
\* whenever the two clock readings are in the same calendar year and leave the
\* listing in the same recency tier.
C13_SameTierSameScore ==
    \A a, b \in 1..Len(evals) :
        ( /\ evals[a].movie = evals[b].movie
          /\ evals[a].clock.year = evals[b].clock.year
          /\ Tier(evals[a]) = Tier(evals[b]) )
            => evals[a].score = evals[b].score

C13_Witness ==
    /\ pc = "rescored"
    /\ notifier = "EnhancedMovieNotifier"
    /\ evals[1].movie = evals[2].movie
    /\ evals[1].clock.year = evals[2].clock.year
    /\ evals[1].clock.hours > evals[2].clock.hours
    /\ Tier(evals[1]) = 1
    /\ Tier(evals[2]) = 1
    /\ evals[1].score = evals[2].score

\* C14: raising the rating, raising the release year, raising the seed count
\* of one torrent, or moving the listing timestamp closer to the clock
\* reading, all other fields and the clock held fixed, never decreases the
\* score.
C14_Monotonic ==
    pc \in {"raised_rating", "raised_year", "raised_seeds", "listed_later"}
        => /\ evals[1].clock = evals[2].clock
           /\ evals[1].movie # evals[2].movie
           /\ evals[1].score >= evals[2].score

C14_Witness ==
    /\ pc = "raised_seeds"
    /\ evals[2].movie = Hedged
    /\ evals[1].movie["torrents"][2]["seeds"] = 0
    /\ evals[1].score > evals[2].score

\* C15 (as stated): an entry without a listing timestamp (key absent or empty
\* string) and the same entry with an unparseable one get the same score:
\* the same flat recency bonus is included in both cases.
C15_SameFlatBonus ==
    \A a, b \in 1..Len(evals) :
        ( /\ DateOf(evals[a].movie).kind # "iso"
          /\ DateOf(evals[b].movie).kind # "iso"
          /\ DelKey(evals[a].movie, "date_uploaded")
                = DelKey(evals[b].movie, "date_uploaded")
          /\ evals[a].clock = evals[b].clock )
            => evals[a].score = evals[b].score

\* C16: of two entries that differ in the listing timestamp only, scored by
\* EnhancedMovieNotifier at the same clock reading, the one in the more recent
\* tier scores strictly higher; so listed 2 hours ago beats listed 200 hours
\* ago.
C16_MoreRecentTierHigher ==
    (pc = "listed_later" /\ notifier = "EnhancedMovieNotifier")
        => /\ Tier(evals[1]) <= Tier(evals[2])
           /\ Tier(evals[1]) < Tier(evals[2]) => evals[1].score > evals[2].score
           /\ (AgeAt(evals[1]) = 2 /\ AgeAt(evals[2]) = 200)
                 => evals[1].score > evals[2].score

C16_Witness ==
    /\ pc = "listed_later"
    /\ notifier = "EnhancedMovieNotifier"
    /\ AgeAt(evals[1]) = 2
    /\ AgeAt(evals[2]) = 200
    /\ evals[1].score = evals[2].score + 800

\* C17 (as stated): the score of an entry equals the score of the same entry
\* with every negative seed count replaced by 0.
C17_NegativeSeedsCountZero ==
    pc = "clamped" => evals[1].score = evals[2].score

\* ------------------------------------------------------------- C18, C19
\* rating and genres of the dict pass admission
OtherCriteria(movie) ==
    /\ Get(movie, "rating", 0) >= MIN_RATING
    /\ Get(movie, "genres", {}) \cap EXCLUDED_GENRES(notifier) = {}

\* C18 (as stated): the minimum admitted release year is the current year: an
\* entry released before the current year is rejected, and an entry of the
\* current year that meets the other criteria is admitted.
C18_MinYearIsCurrentYear ==
    pc = "filter_returned" =>
        \A r \in 1..Len(movies) :
            /\ Get(movies[r], "year", 0) < now.year
                  => r \notin Range(high_rated_movies)
            /\ (Get(movies[r], "year", 0) = now.year /\ OtherCriteria(movies[r]))
                  => r \in Range(high_rated_movies)

\* C18 (amended): the minimum admitted release year is the constant 2025
\* whatever the current date: an entry released before 2025 is rejected, and
\* an entry of 2025 or later that meets the other criteria is admitted, also
\* when the current year is later than 2025.
C18_MinYearIs2025 ==
    pc = "filter_returned" =>
        \A r \in 1..Len(movies) :
            /\ Get(movies[r], "year", 0) < 2025
                  => r \notin Range(high_rated_movies)
            /\ (Get(movies[r], "year", 0) >= 2025 /\ OtherCriteria(movies[r]))
                  => r \in Range(high_rated_movies)

\* in 2026 a call admitted an entry of 2025 and rejected one of 2024
C18_Witness ==
    /\ pc = "filter_returned"
    /\ now.year = 2026
    /\ \E r \in Range(high_rated_movies) : movies[r]["year"] = 2025
    /\ \E r \in 1..Len(movies) :
          /\ Get(movies[r], "year", 0) = 2024
          /\ OtherCriteria(movies[r])
          /\ r \notin Range(high_rated_movies)

\* C19: an entry without an identifier is never returned by get_new_movies,
\* adds nothing to known_movies, and the call returns the same entries and
\* leaves the same known_movies as it does on the batch with the entries
\* without identifier taken out.
C19_NoIdSkipped ==
    pc = "get_new_returned" =>
        LET withId == SelectSeq(AllRefs(movies), LAMBDA r : "id" \in DOMAIN movies[r])
            alone == get_new_movies(movies, withId, known_at_start)
        IN  /\ \A r \in Range(new_movies) : "id" \in DOMAIN movies[r]
            /\ NoId \notin known_movies
            /\ known_movies \ known_at_start
                  \subseteq {movies[r]["id"] : r \in Range(withId)}
            /\ new_movies = alone.out
            /\ known_movies = alone.known

\* the batch had an entry without identifier ahead of an entry that was returned
C19_Witness ==
    /\ pc = "get_new_returned"
    /\ Len(movies) = 2
    /\ "id" \notin DOMAIN movies[1]
    /\ new_movies = <<2>>
    /\ known_movies = known_at_start \cup {movies[2]["id"]}

\* ----------------------------------------------------------------- C20
\* the identifiers coroutine t got back from get_new_movies
NewIds(t) ==
    {Get(tasks[t].movies[r], "id", NoId) : r \in Range(tasks[t].new_movies)}

\* the identifiers of the entries coroutine t passed to get_new_movies
AdmittedIds(t) ==
    {Get(tasks[t].movies[r], "id", NoId) : r \in Range(tasks[t].high_rated_movies)}

\* C20: whatever the interleaving of two concurrent cycles on one notifier, no
\* identifier is returned as new to both, and each identifier is returned at
\* most once in all.
C20_NotNewInBoth ==
    /\ NewIds(1) \cap NewIds(2) = {}
    /\ \A id \in Ids : returned[id] <= 1
    /\ NewIds(1) \cup NewIds(2) \subseteq known_movies

\* the second coroutine went through get_new_movies with identifier 1 in its
\* batch while the first, which had got identifier 1 as new, was suspended in
\* its sending loop
C20_Witness ==
    /\ tasks[1].pc = "sending"
    /\ tasks[2].pc \in {"sending", "returned"}
    /\ 1 \in NewIds(1)
    /\ 1 \in AdmittedIds(2)
    /\ 1 \notin NewIds(2)
    /\ 2 \in NewIds(2)

\* ----------------------------------------------------------------- C21
\* C21: in InteractiveMovieBot known_movies changes only inside
\* get_new_movies: every step of the /start, /help, /status and /search
\* handlers, the fetch, the admission filter (with the scorer), the sending
\* of a notification and the sleep leave it as it is.
C21_OnlyTrackerWrites ==
    [][ known_movies' # known_movies
          => /\ pc = "filtered"
             /\ pc' \in {"sending", "returned"}
             /\ handler' = handler
             /\ known_movies' =
                  get_new_movies(movies, high_rated_movies, known_movies).known ]_vars

\* /search has shown a movie that is not in known_movies while the monitoring
\* task, which has recorded another, is suspended in its sending loop
C21_Witness ==
    /\ pc = "sending"
    /\ known_movies # {}
    /\ handler.pc = "replying"
    /\ handler.i = 2
    /\ Truthy(Get(handler.movies[1], "id", NoId))
    /\ Get(handler.movies[1], "id", NoId) \notin known_movies
    /\ handler.reply.id = Get(handler.movies[1], "id", NoId)
    /\ handler.served = 1

\* ------------------------------------------------------- C22, C27, C29
\* the identifiers send_notification was called for in the current cycle
NotifiedIds == {IdOf(notified[k]) : k \in 1..Len(notified)}

\* C22: a new notifier instance starts with known_movies empty, and in a cycle
\* that starts with known_movies empty every identifier notified before the
\* restart that an admitted entry of the fetched batch carries is notified
\* again.
C22_NotifiedAgainAfterRestart ==
    /\ pc = "restarted" => (known_movies = {} /\ last_check_time = NoTime)
    /\ (pc = "returned" /\ known_at_start = {}) =>
          \A r \in Range(high_rated_movies) :
              IdOf(r) \in before_restart => IdOf(r) \in NotifiedIds

\* identifier 1 was notified, the process was restarted, and the first cycle
\* of the new run notified identifier 1 a second time
C22_Witness ==
    /\ pc = "returned"
    /\ cycles = 2
    /\ known_at_start = {}
    /\ 1 \in before_restart
    /\ 1 \in NotifiedIds
    /\ attempts[1] = 2

\* C27: known_movies gains identifiers of admitted entries only, so at the
\* end of a cycle every admitted entry whose identifier is usable and was not
\* in known_movies when the cycle began has been notified, also when an entry
\* with that identifier was rejected in an earlier cycle.
C27_RejectedStaysUnseen ==
    /\ pc \in {"fetched", "filtered", "sending", "returned"} =>
          known_movies \ known_at_start
            \subseteq {IdOf(r) : r \in {q \in 1..Len(movies) : MeetsCriteria(movies[q])}}
    /\ \A id \in known_movies : returned[id] >= 1
    /\ pc = "returned" =>
          \A r \in Range(high_rated_movies) :
              (Truthy(IdOf(r)) /\ IdOf(r) \notin known_at_start)
                  => IdOf(r) \in NotifiedIds

\* identifier 4 was rejected in the first cycle (rating 5.9), stayed out of
\* known_movies, and is notified in the second, where its rating is 6.0
C27_Witness ==
    /\ pc = "returned"
    /\ cycles = 2
    /\ before_restart = {}
    /\ 4 \in rejected
    /\ 4 \notin known_at_start
    /\ \A r \in 1..Len(movies) : IdOf(r) = 4 => movies[r]["rating"] = 60
    /\ 4 \in NotifiedIds

\* C29: an entry whose identifier is 0 or '' is never returned by
\* get_new_movies, its identifier is never in known_movies, and no
\* notification is ever sent for it.
C29_FalsyIdNeverNotified ==
    /\ known_movies \cap {0, EmptyId} = {}
    /\ \A r \in Range(new_movies) : IdOf(r) \notin {0, EmptyId}
    /\ NotifiedIds \cap {0, EmptyId} = {}
    /\ \A k \in 1..Len(outbox) : outbox[k].id \notin {0, EmptyId}

\* the second cycle admitted an entry with id 0 and one with id '', got
\* nothing back from get_new_movies and returned
C29_Witness ==
    /\ pc = "returned"
    /\ cycles = 2
    /\ {IdOf(r) : r \in Range(high_rated_movies)} = {0, EmptyId}
    /\ new_movies = <<>>
    /\ known_movies = known_at_start

\* ----------------------------------------------------------------- C23
\* C23: filter_high_rated_movies([]) and get_new_movies([]) return empty
\* lists and change nothing, and a polling cycle whose fetch gives no entry
\* (the API lists none or the request failed) returns at once: nothing is
\* sent and known_movies is as before.
C23_EmptyBatchNoOp ==
    /\ [](/\ filter_high_rated_movies(<<>>, <<>>, now, notifier)
                = [heap |-> <<>>, out |-> <<>>]
          /\ get_new_movies(<<>>, <<>>, known_movies)
                = [out |-> <<>>, known |-> known_movies]
          /\ (pc = "returned" /\ movies = <<>>)
                => /\ notified = <<>>
                   /\ outbox = <<>>
                   /\ new_movies = <<>>
                   /\ known_movies = known_at_start)
    /\ [][ (pc = "fetched" /\ movies = <<>>)
              => /\ pc' = "returned"
                 /\ known_movies' = known_movies
                 /\ outbox' = outbox
                 /\ notified' = notified ]_vars

\* the second cycle fetched nothing and returned, with the identifiers the
\* first cycle recorded still in known_movies
C23_Witness ==
    /\ pc = "returned"
    /\ cycles = 2
    /\ movies = <<>>
    /\ known_movies # {}
    /\ known_movies = known_at_start

\* ------------------------------------- MovieTorrentBot: on-demand search
\* config.py: MIN_RATING = 6.0 (in tenths) and MAX_RESULTS = 10
config_MIN_RATING == 60
MAX_RESULTS == 10

\* the longest data.movies list of a response
MaxResponse == 12

\* python's seq[:n]
Slice(seq, n) == SubSeq(seq, 1, Min(Len(seq), n))

\* YTSAPI.search_movies keeping only ratings above MIN_RATING
RECURSIVE KeepRated_Strict(_)
KeepRated_Strict(ms) ==
    IF ms = <<>> THEN <<>>
    ELSE (IF Get(Head(ms), "rating", 0) > config_MIN_RATING
          THEN <<Head(ms)>> ELSE <<>>) \o KeepRated_Strict(Tail(ms))

\* YTSAPI.search_movies, the loop: `if movie.get('rating', 0) >= MIN_RATING:
\* filtered_movies.append(movie)`, in the order of the response
RECURSIVE KeepRated(_)
KeepRated(ms) ==
    IF ms = <<>> THEN <<>>
    ELSE (IF Get(Head(ms), "rating", 0) >= config_MIN_RATING
          THEN <<Head(ms)>> ELSE <<>>) \o KeepRated(Tail(ms))

\* YTSAPI.search_movies: [] when the request raises or the status is not
\* 'ok', else the filtered data.movies
YTSAPI_search_movies(resp) ==
    IF resp.outcome # "ok" THEN <<>> ELSE KeepRated(resp.movies)

\* the entry at position p of a response: rated 5.9 at the positions in low,
\* without a rating at those in bare, else 6.0 or 8.5
Found(p, low, bare) ==
    IF p \in bare THEN [id |-> p]
    ELSE [id |-> p,
          rating |-> IF p \in low THEN 59 ELSE IF p % 2 = 0 THEN 60 ELSE 85]

LowSpots == {1, 3, 11}
BareSpots == {2}

\* what the search request can bring: a list under status 'ok', a list
\* under an error status, or an exception of requests.get
Responses ==
    {[outcome |-> o, movies |-> [p \in 1..n |-> Found(p, low, bare)]] :
        o \in {"ok", "error"}, n \in 0..MaxResponse,
        low \in SUBSET LowSpots, bare \in SUBSET BareSpots}
    \cup {[outcome |-> "exception", movies |-> <<>>]}

\* the message showing one movie: format_movie_info or the plain line
\* 'Movie i: title - rating/10'
MovieReply(movie) ==
    [kind |-> "movie", photo |-> "", id |-> Get(movie, "id", NoId),
     rating |-> Get(movie, "rating", 0)]

InitSearch ==
    /\ notifier = "MovieTorrentBot"
    /\ now = [year |-> 2025, hours |-> 1000]
    /\ known_movies = {}
    /\ last_check_time = NoTime
    /\ pc = "polling"
    /\ cycles = 0
    /\ movies = <<>>
    /\ high_rated_movies = <<>>
    /\ new_movies = <<>>
    /\ i = 0
    /\ known_at_start = {}
    /\ notified = <<>>
    /\ delivered = {}
    /\ returned = [id \in Ids |-> 0]
    /\ attempts = [id \in Ids |-> 0]
    /\ again = <<>>
    /\ evals = <<>>
    /\ tasks = <<>>
    /\ handler = Idle
    /\ outbox = <<>>
    /\ before_restart = {}
    /\ rejected = {}
    /\ response = NoResponse

\* what the handlers of MovieTorrentBot leave alone
SearchFrame ==
    UNCHANGED <<notifier, now, known_movies, last_check_time, pc, cycles,
                movies, high_rated_movies, new_movies, i, known_at_start,
                notified, delivered, returned, attempts, again, evals, tasks,
                before_restart, rejected>>

TorrentStartCommand ==
    /\ handler.pc = "idle"
    /\ handler.served < MaxCommands
    /\ handler' = [handler EXCEPT !.served = @ + 1, !.reply = Reply("welcome")]
    /\ UNCHANGED <<outbox, response>>
    /\ SearchFrame

TorrentHelpCommand ==
    /\ handler.pc = "idle"
    /\ handler.served < MaxCommands
    /\ handler' = [handler EXCEPT !.served = @ + 1, !.reply = Reply("help")]
    /\ UNCHANGED <<outbox, response>>
    /\ SearchFrame

\* search_command: the usage reply without arguments, else search_movies up
\* to the typing indicator
TorrentSearchCommand ==
    /\ handler.pc = "idle"
    /\ handler.served < MaxCommands
    /\ \E has_args \in BOOLEAN :
          IF has_args
          THEN /\ handler' = [handler EXCEPT !.pc = "searching",
                                             !.reply = Reply("typing")]
               /\ outbox' = <<>>
               /\ response' = NoResponse
          ELSE /\ handler' = [handler EXCEPT !.served = @ + 1,
                                             !.reply = Reply("usage")]
               /\ UNCHANGED <<outbox, response>>
    /\ SearchFrame

\* handle_message: a text of fewer than 2 characters is turned down, any
\* other is searched for
HandleMessage ==
    /\ handler.pc = "idle"
    /\ handler.served < MaxCommands
    /\ \E long_enough \in BOOLEAN :
          IF long_enough
          THEN /\ handler' = [handler EXCEPT !.pc = "searching",
                                             !.reply = Reply("typing")]
               /\ outbox' = <<>>
               /\ response' = NoResponse
          ELSE /\ handler' = [handler EXCEPT !.served = @ + 1,
                                             !.reply = Reply("too_short")]
               /\ UNCHANGED <<outbox, response>>
    /\ SearchFrame

\* search_movies from the API call to the header: `if not movies` gives the
\* 'No movies found' reply, else movies = movies[:MAX_RESULTS] and the
\* 'Found N movies' reply
TorrentSearch ==
    /\ handler.pc = "searching"
    /\ \E resp \in Responses :
          /\ response' = resp
          /\ \E found \in {YTSAPI_search_movies(resp)} :
                handler' =
                    IF found = <<>>
                    THEN [handler EXCEPT !.pc = "idle", !.served = @ + 1,
                                         !.reply = Reply("not_found")]
                    ELSE [handler EXCEPT
                             !.pc = "replying",
                             !.movies = Slice(found, MAX_RESULTS),
                             !.i = 1,
                             !.reply = Reply("found")]
    /\ UNCHANGED outbox
    /\ SearchFrame

\* one turn of the loop of search_movies: the formatted message, or the
\* plain line when that send raises; when the plain send raises too the
\* exception leaves the handler and error_handler replies
TorrentSendMovie ==
    /\ handler.pc = "replying"
    /\ \E markdown_ok, plain_ok \in BOOLEAN :
          LET movie == handler.movies[handler.i]
              last == handler.i = Len(handler.movies)
              form == IF markdown_ok THEN "movie_info" ELSE "plain"
          IN  IF markdown_ok \/ plain_ok
              THEN /\ outbox' = Append(outbox, MovieReply(movie))
                   /\ handler' =
                         IF last
                         THEN [handler EXCEPT !.pc = "idle", !.movies = <<>>,
                                              !.i = 0, !.served = @ + 1,
                                              !.reply = Reply(form)]
                         ELSE [handler EXCEPT !.i = @ + 1,
                                              !.reply = Reply(form)]
              ELSE /\ outbox' = outbox
                   /\ handler' = [handler EXCEPT
                                     !.pc = "idle", !.movies = <<>>, !.i = 0,
                                     !.served = @ + 1,
                                     !.reply = Reply("went_wrong")]
    /\ UNCHANGED response
    /\ SearchFrame

NextSearch ==
    \/ TorrentStartCommand
    \/ TorrentHelpCommand
    \/ TorrentSearchCommand
    \/ HandleMessage
    \/ TorrentSearch
    \/ TorrentSendMovie

SpecSearch == InitSearch /\ [][NextSearch]_vars

\* the entries of the response in flight that are rated 6.0 or more
RatedAtLeastMin(movie) == Get(movie, "rating", 0) >= config_MIN_RATING

RatedListed == SelectSeq(response.movies, RatedAtLeastMin)

\* C24: in MovieTorrentBot every movie sent in reply to a search is rated
\* MIN_RATING (6.0) or more, at most MAX_RESULTS (10) are sent, the movies
\* sent are, in order, the first ones of the API's list restricted to
\* ratings of MIN_RATING or more, and a failed or non-ok response gets the
\* 'no movies found' reply with no movie sent
C24_SearchShowsRatedPrefix ==
    /\ [](/\ \A k \in 1..Len(outbox) : outbox[k].rating >= config_MIN_RATING
          /\ Len(outbox) <= MAX_RESULTS
          /\ Len(outbox) <= Len(RatedListed)
          /\ \A k \in 1..Len(outbox) : outbox[k].id = RatedListed[k].id
          /\ response.outcome \in {"error", "exception"} => outbox = <<>>)
    /\ [][(/\ response' # response
           /\ response'.outcome \in {"error", "exception"})
          => /\ handler'.reply.kind = "not_found"
             /\ handler'.pc = "idle"
             /\ outbox' = <<>>]_vars

\* a search whose response lists more than MAX_RESULTS entries rated 6.0 or
\* more, besides lower-rated ones, has sent its last movie
C24_Witness ==
    /\ response.outcome = "ok"
    /\ Len(RatedListed) > MAX_RESULTS
    /\ Len(response.movies) > Len(RatedListed)
    /\ \E k \in 1..Len(outbox) : outbox[k].rating = config_MIN_RATING
    /\ Len(outbox) = MAX_RESULTS
    /\ handler.pc = "idle"

\* ------------------------------------------------------------------ C25
\* the points the listing timestamp added to the score: the entry was scored,
\* then scored again at the same clock reading with 'date_uploaded' deleted
RecencyPoints == (evals[2].score - evals[1].score) \div 10

DatedThenUndated ==
    /\ pc = "date_removed"
    /\ notifier = "EnhancedMovieNotifier"
    /\ DateOf(evals[2].movie).kind = "iso"
    /\ evals[1].clock = evals[2].clock

SentInStep == SubSeq(outbox', Len(outbox) + 1, Len(outbox'))

\* C26: for each new entry send_notification of EnhancedMovieNotifier
\* delivers at most one message, about that entry: a photo only when the
\* entry has a poster, showing the large cover when there is one and the
\* medium cover otherwise; a text-only message when it has no poster or the
\* first send failed; when nothing could be delivered the loop still moves on
\* to the next entry or ends the cycle.
C26_AtMostOneMessage ==
    [][(pc = "sending" /\ notifier = "EnhancedMovieNotifier"
            /\ notified' # notified)
       => LET movie == movies[new_movies[i]]
              large == Get(movie, "large_cover_image", "")
              medium == Get(movie, "medium_cover_image", "")
          IN  /\ outbox = SubSeq(outbox', 1, Len(outbox))
              /\ Len(SentInStep) <= 1
              /\ \A k \in 1..Len(SentInStep) :
                    /\ SentInStep[k].id = Get(movie, "id", NoId)
                    /\ SentInStep[k].kind \in {"photo", "text"}
                    /\ SentInStep[k].kind = "photo"
                          => /\ large # "" \/ medium # ""
                             /\ large # "" => SentInStep[k].photo = large
                             /\ large = "" => SentInStep[k].photo = medium
                    /\ (large = "" /\ medium = "")
                          => SentInStep[k].kind = "text"
              /\ \/ i' = i + 1 /\ pc' = "sending"
                 \/ i = Len(new_movies) /\ pc' = "returned"]_vars

\* two entries were passed to send_notification; nothing was delivered for
\* the first, which has both covers, and the second, which has a medium cover
\* only, got its photo message
C26_Witness ==
    /\ notifier = "EnhancedMovieNotifier"
    /\ Len(notified) = 2
    /\ Len(outbox) = 1
    /\ outbox[1].kind = "photo"
    /\ outbox[1].id = Get(movies[notified[2]], "id", NoId)
    /\ outbox[1].id # Get(movies[notified[1]], "id", NoId)
    /\ Get(movies[notified[1]], "large_cover_image", "") # ""
    /\ Get(movies[notified[1]], "medium_cover_image", "") # ""
    /\ Get(movies[notified[2]], "large_cover_image", "") = ""
    /\ outbox[1].photo = Get(movies[notified[2]], "medium_cover_image", "")

\* ------------------------------------------------------------------ C28
\* the dict at r comes before the dict at q after the score sort: higher
\* score, then higher rating, then earlier in the fetched batch
SortedBefore(r, q) == RankedAbove(r, q) \/ (SameRank(r, q) /\ r < q)

\* the admitted entries of the batch that carry the identifier id
Carriers(id) ==
    {r \in 1..Len(movies) : MeetsCriteria(movies[r]) /\ IdOf(r) = id}

\* C28: when one fetched batch holds two admitted entries with the same, not
\* yet seen identifier, the cycle notifies the one of them that comes first
\* after the score sort and skips the other, wherever the two stood in the
\* fetched batch.
C28_FirstAfterSortNotified ==
    pc = "returned" =>
        \A id \in Ids :
            (id \notin known_at_start /\ Cardinality(Carriers(id)) >= 2)
                => \E r \in Carriers(id) :
                      /\ \A q \in Carriers(id) \ {r} : SortedBefore(r, q)
                      /\ Range(notified) \cap Carriers(id) = {r}
                      /\ Len(SelectSeq(notified, LAMBDA n : n = r)) = 1

\* of two admitted entries with the same unseen identifier the second of the
\* fetched batch scored higher and is the one that was notified
C28_Witness ==
    /\ pc = "returned"
    /\ notifier = "MovieNotifier"
    /\ Len(movies) = 2
    /\ Carriers(IdOf(1)) = {1, 2}
    /\ IdOf(1) \notin known_at_start
    /\ movies[2]["_score"] > movies[1]["_score"]
    /\ notified = <<2>>
    /\ IdOf(1) \in delivered

\* ------------------------------------------------ the monitoring loop
\* what the catalog lists in the specification of the loop, and the longest
\* batch
LoopCatalog == {Saw, LowRated}
MaxLoopBatch == 1

InitLoop == Init /\ now = [year |-> 2025, hours |-> 1000]

\* the body of `while True`: await self.check_and_notify(), first statement
LoopFetch ==
    /\ pc = "start"
    /\ cycles < MaxCycles
    /\ \E batch \in SeqsUpTo(LoopCatalog, MaxLoopBatch) : movies' = batch
    /\ known_at_start' = known_movies
    /\ cycles' = cycles + 1
    /\ pc' = "fetched"
    /\ UNCHANGED <<evals, tasks, handler, outbox, before_restart, rejected, response>>
    /\ UNCHANGED <<notifier, now, known_movies, last_check_time,
                   high_rated_movies, new_movies, i, notified, delivered,
                   returned, attempts, again>>

\* check_and_notify: a statement of the try body raises and `except Exception`
\* logs it; the call returns without setting last_check_time
CycleError ==
    /\ pc \in {"fetched", "filtered", "sending"}
    /\ pc' = "returned"
    /\ UNCHANGED <<evals, tasks, handler, outbox, before_restart, rejected, response>>
    /\ UNCHANGED <<notifier, now, known_movies, last_check_time, cycles,
                   movies, high_rated_movies, new_movies, i, known_at_start,
                   notified, delivered, returned, attempts, again>>

\* an exception that reaches the loop ends it
LoopError_Break ==
    /\ pc = "returned"
    /\ pc' = "stopped"
    /\ UNCHANGED <<evals, tasks, handler, outbox, before_restart, rejected, response>>
    /\ UNCHANGED <<notifier, now, known_movies, last_check_time, cycles,
                   movies, high_rated_movies, new_movies, i, known_at_start,
                   notified, delivered, returned, attempts, again>>

\* run_continuous_monitoring: a statement after check_and_notify raises
\* (the log line or the sleep) and `except Exception` of the loop logs it
LoopError ==
    /\ pc = "returned"
    /\ pc' = "retry_wait"
    /\ UNCHANGED <<evals, tasks, handler, outbox, before_restart, rejected, response>>
    /\ UNCHANGED <<notifier, now, known_movies, last_check_time, cycles,
                   movies, high_rated_movies, new_movies, i, known_at_start,
                   notified, delivered, returned, attempts, again>>

\* `await asyncio.sleep(60)` in the handler, then the next turn of the loop;
\* 60 seconds do not move a clock read in hours
RetrySleep ==
    /\ pc = "retry_wait"
    /\ pc' = "start"
    /\ movies' = <<>>
    /\ high_rated_movies' = <<>>
    /\ new_movies' = <<>>
    /\ notified' = <<>>
    /\ outbox' = <<>>
    /\ i' = 0
    /\ UNCHANGED <<evals, tasks, handler, before_restart, rejected, response>>
    /\ UNCHANGED <<notifier, now, known_movies, last_check_time, cycles,
                   known_at_start, delivered, returned, attempts, again>>

\* KeyboardInterrupt anywhere in the loop: no `except Exception` catches it,
\* `except KeyboardInterrupt: break` ends the loop
Interrupt ==
    /\ pc # "interrupted"
    /\ pc' = "interrupted"
    /\ UNCHANGED <<evals, tasks, handler, outbox, before_restart, rejected, response>>
    /\ UNCHANGED <<notifier, now, known_movies, last_check_time, cycles,
                   movies, high_rated_movies, new_movies, i, known_at_start,
                   notified, delivered, returned, attempts, again>>

\* the steps the event loop takes by itself
LoopRuns ==
    \/ LoopFetch \/ Filter \/ GetNew \/ Send \/ Sleep
    \/ CycleError \/ LoopError \/ RetrySleep

NextLoop ==
    \/ LoopFetch \/ Filter \/ GetNew \/ Send \/ Sleep
    \/ CycleError \/ LoopError \/ RetrySleep \/ Interrupt

\* the coroutine is resumed whenever it can run: requests time out, sleeps
\* end, and nothing else runs on the event loop
SpecLoop == InitLoop /\ [][NextLoop]_vars /\ WF_vars(LoopRuns)

\* ------------------------------------------------------------------ C30
\* C30: the monitoring loop does not stop on errors: once a polling cycle is
\* over, whether it notified, returned early or raised, and whether or not
\* an exception then reached the loop, the next polling cycle starts unless
\* a KeyboardInterrupt ends the loop first; the wait is CHECK_INTERVAL after
\* a cycle that ended quietly; the loop is always at one of its own
\* statements or interrupted.
C30_LoopGoesOn ==
    /\ (pc \in {"returned", "retry_wait"} /\ cycles < MaxCycles)
          ~> (pc \in {"fetched", "interrupted"})
    /\ [](pc \in {"start", "fetched", "filtered", "sending", "returned",
                  "retry_wait", "interrupted"})
    /\ [][(pc = "returned" /\ pc' = "start")
             => now'.hours = now.hours + CHECK_INTERVAL]_vars

\* the second cycle has started after a first one that raised and an
\* exception that reached the loop
C30_Witness ==
    /\ pc = "fetched"
    /\ cycles = 2
    /\ last_check_time = NoTime
    /\ known_movies # {}
    /\ now.hours = 1000

====
